---------------------------- MODULE Spec2Model ----------------------------
(***************************************************************************)
(* Model of the literature-review pipeline of ArxivSurveyAgent:           *)
(* LiteratureAgent.conduct_literature_review                                *)
(* (src/src/lit_review_agent/agent.py) with the collaborators it calls:    *)
(* ArxivClient.search, PDFProcessor.extract_text_from_url,                 *)
(* TextProcessor.extract_research_keywords and Summarizer.summarize_text.  *)
(*                                                                         *)
(* Python strings whose characters matter (doi, arxiv_id, title, author)   *)
(* are sequences of one-character strings, so that lower(), strip() and    *)
(* the character filter of the soft pass are computed, not assumed.        *)
(* None and the empty string are both the empty sequence <<>> (or "" for   *)
(* the fields only tested for truthiness): the code tests these fields     *)
(* with `if item.doi`, `if item.pdf_url`, ..., which treats them alike.    *)
(***************************************************************************)
EXTENDS Integers, Sequences, FiniteSets, TLC

VARIABLES
    pc,                 \* position of the run
    max_papers,         \* argument max_papers
    retrieve_full_text, \* argument retrieve_full_text
    arxiv_active,       \* "arxiv" in sources and self.arxiv_client
    action_plan,        \* action_plan (agent.py:240)
    fetched,            \* history: the list as extended by retrieval (agent.py:324)
    source_outcome,     \* history: what ArxivClient.search did
    kept_id,            \* history: positions of fetched kept by the ID pass
    kept_soft,          \* history: positions of fetched kept by both passes
    retrieved_items,    \* retrieved_items (agent.py:273)
    i,                  \* loop index of the enrichment / AI loops (1-based)
    enrich_outcome,     \* history: per retained item, what extraction did
    analysis_outcome,   \* history: per retained item, what the AI calls did
    processed_papers,   \* processed_papers (agent.py:274)
    results,            \* the returned dict (agent.py:559), as the request
                        \* handler holds it (api_server.py:817-854)
    raised,             \* exception that reached the caller, or "none"
    stage_log,          \* history: the stages the progress display announced
    total_steps,        \* total_steps of the progress bar (agent.py:298-302)
    progress_done,      \* number of update_progress(advance=1) calls so far
    cancelled_at,       \* history: where the run was when its budget expired
    req_pc,             \* position of a call of LLMManager._make_request
    max_retries,        \* self.max_retries (llm_manager.py:37)
    rate_limit_delay,   \* self.config.llm_rate_limit_delay, in seconds
    attempt,            \* loop variable of llm_manager.py:91 (0-based)
    responses,          \* history: what each request sent was answered with
    sleeps,             \* history: the asyncio.sleep calls made, in order
    req_exc,            \* the exception _make_request raised, or NoExc
    provider,           \* self.provider of the LLMManager
    api_key,            \* self.api_key
    base_url,           \* self.base_url
    openai_api_key,     \* self.config.openai_api_key ("" when not configured)
    emb_pc,             \* position of a call of generate_embedding
    temp,               \* temp_provider, temp_api_key, temp_base_url
    pre_call,           \* history: the three fields when the call began
    emb_exc,            \* the exception generate_embedding raised, or NoExc
    other_read,         \* history: what a concurrent call read from self
    rep_pc,             \* position of a call of generate_comprehensive_report
    task_result,        \* per section task: pending, or what gather got from it
    report,             \* the dict generate_comprehensive_report returned
    s_pc,               \* position of a call of ArxivClient.search
    query,              \* argument query of search
    dispatched,         \* history: the query arxiv.Search was built with
    elapsed,            \* seconds asyncio.wait_for has waited so far
    search_result,      \* the list search returned
    search_exc,         \* the exception search raised, or NoExc
    provider_outcome,   \* history: what arxiv.Client.results did
    research_topic,     \* argument research_topic of conduct_literature_review
    raw_query,          \* argument raw_query of conduct_literature_review
    db_available,       \* the module global user_db is set
    user_exists,        \* the authenticated user has a row in the database
    balance,            \* column balance of that row
    total_amount_spent, \* column total_amount_spent of that row
    total_papers_searched, \* column total_papers_searched of that row
    usage_records,      \* table usage_records, in the order of insertion
    recharge_records,   \* table recharge_records, in the order of insertion
    req,                \* the requests of /api/search of the user
    now,                \* int(datetime.now().timestamp())
    orders,             \* history: the orders create_recharge_order answered
    cache_file,         \* the file at the cache path of one key
    inodes,             \* number of files created at that path so far
    th,                 \* the threads that call the CacheManager
    set_values          \* history: the values passed to set

vars == <<pc, max_papers, retrieve_full_text, arxiv_active, action_plan,
          fetched, source_outcome, kept_id, kept_soft, retrieved_items, i,
          enrich_outcome, analysis_outcome, processed_papers, results, raised,
          stage_log, total_steps, progress_done, cancelled_at,
          req_pc, max_retries, rate_limit_delay, attempt, responses, sleeps,
          req_exc, provider, api_key, base_url, openai_api_key, emb_pc, temp,
          pre_call, emb_exc, other_read, rep_pc, task_result, report,
          s_pc, query, dispatched, elapsed, search_result, search_exc,
          provider_outcome, research_topic, raw_query,
          db_available, user_exists, balance, total_amount_spent,
          total_papers_searched, usage_records, recharge_records, req, now,
          orders, cache_file, inodes, th, set_values>>

\* the variables of a run of conduct_literature_review
runVars == <<pc, max_papers, retrieve_full_text, arxiv_active, action_plan,
             fetched, source_outcome, kept_id, kept_soft, retrieved_items, i,
             enrich_outcome, analysis_outcome, processed_papers, results,
             raised, stage_log, total_steps, progress_done, cancelled_at,
             research_topic, raw_query>>

\* the arguments a run was called with
callVars == <<research_topic, raw_query>>

\* the variables of a call of LLMManager._make_request
requestVars == <<req_pc, max_retries, rate_limit_delay, attempt, responses,
                 sleeps, req_exc>>

\* the fields of the LLMManager and a call of generate_embedding
embedVars == <<provider, api_key, base_url, openai_api_key, emb_pc, temp,
               pre_call, emb_exc, other_read>>

\* a call of ReportGenerator.generate_comprehensive_report
reportVars == <<rep_pc, task_result, report>>

\* a call of ArxivClient.search
searchVars == <<s_pc, query, dispatched, elapsed, search_result, search_exc,
                provider_outcome>>

\* the accounts of the user database and the requests that bill them
billingVars == <<db_available, user_exists, balance, total_amount_spent,
                 total_papers_searched, usage_records, recharge_records, req,
                 now, orders>>

\* the cache file of one key and the threads that use it
cacheVars == <<cache_file, inodes, th, set_values>>

\* the components around the pipeline, its gateway and its report
serviceVars == <<searchVars, billingVars, cacheVars>>

\* everything a run of conduct_literature_review leaves alone
aroundRun == <<requestVars, embedVars, reportVars, serviceVars>>

\* everything a step of a run after its first leaves alone
otherVars == <<aroundRun, callVars>>

\* everything a request of its own leaves alone
nonRequestVars == <<runVars, embedVars, reportVars, serviceVars>>

\* everything the LLMManager leaves alone
outsideGateway == <<runVars, reportVars, serviceVars>>

\* everything the report generator leaves alone
nonReportVars == <<runVars, requestVars, embedVars, serviceVars>>

\* the pipeline, its gateway and its report
coreVars == <<runVars, requestVars, embedVars, reportVars>>

\* everything a call of ArxivClient.search leaves alone
nonSearchVars == <<coreVars, billingVars, cacheVars>>

\* everything the endpoints that bill the user leave alone
nonBillingVars == <<coreVars, searchVars, cacheVars>>

\* everything the CacheManager leaves alone
nonCacheVars == <<coreVars, searchVars, billingVars>>

\* the progress display of a run
progressVars == <<stage_log, total_steps, progress_done>>

-----------------------------------------------------------------------------
(* Bounds *)

MaxFetched == 3

MaxPapers == 2

\* largest configured LLM_MAX_RETRIES
MaxRetries == 4

\* largest number of terms in a query
MaxTerms == 2

\* number of concurrent requests of /api/search
MaxRequests == 2

\* largest number of calls of confirm_payment
MaxConfirms == 2

\* number of threads that use the cache at once
MaxThreads == 2

-----------------------------------------------------------------------------
(* Python string operations *)

UpperLetters ==
    <<"A","B","C","D","E","F","G","H","I","J","K","L","M",
      "N","O","P","Q","R","S","T","U","V","W","X","Y","Z">>

LowerLetters ==
    <<"a","b","c","d","e","f","g","h","i","j","k","l","m",
      "n","o","p","q","r","s","t","u","v","w","x","y","z">>

Digits == {"0","1","2","3","4","5","6","7","8","9"}

\* str.lower() on one character
LowerChar(c) ==
    IF \E k \in 1..26 : UpperLetters[k] = c
    THEN LowerLetters[CHOOSE k \in 1..26 : UpperLetters[k] = c]
    ELSE c

\* str.lower()
Lower(s) == [k \in 1..Len(s) |-> LowerChar(s[k])]

\* str.isalnum() on one character
IsAlnum(c) ==
    \/ c \in Digits
    \/ \E k \in 1..26 : c = UpperLetters[k] \/ c = LowerLetters[k]

\* str.isspace() on one character
IsSpace(c) == c = " "

RECURSIVE LStrip(_)
LStrip(s) ==
    IF s # <<>> /\ IsSpace(Head(s)) THEN LStrip(Tail(s)) ELSE s

RECURSIVE RStrip(_)
RStrip(s) ==
    IF s # <<>> /\ IsSpace(s[Len(s)]) THEN RStrip(SubSeq(s, 1, Len(s) - 1)) ELSE s

\* str.strip()
Strip(s) == RStrip(LStrip(s))

\* the generator of agent.py:383-385: keeps alphanumerics and spaces
KeepChar(c) == IsAlnum(c) \/ IsSpace(c)

-----------------------------------------------------------------------------
(* Stage 1: identifier-based deduplication, agent.py:350-372 *)

\* a variant that compares DOIs and arXiv ids as written, without lower()
UniqueId_NoLower(item) ==
    IF item.doi # <<>> THEN item.doi
    ELSE IF item.arxiv_id # <<>> THEN item.arxiv_id
    ELSE <<>>

\* a variant that keys on the DOI only and ignores the arXiv id
UniqueId_DoiOnly(item) ==
    IF item.doi # <<>> THEN Lower(item.doi) ELSE <<>>

\* unique_id of agent.py:354-360; <<>> is None
UniqueId(item) ==
    IF item.doi # <<>> THEN Lower(item.doi)
    ELSE IF item.arxiv_id # <<>> THEN Lower(item.arxiv_id)
    ELSE <<>>

\* a variant whose seen set is overwritten instead of extended
StrongStep_Overwrite(item, seen) ==
    LET unique_id == UniqueId(item) IN
    IF unique_id # <<>> /\ unique_id \in seen
    THEN [keep |-> FALSE, seen |-> seen]
    ELSE [keep |-> TRUE,
          seen |-> IF unique_id # <<>> THEN {unique_id} ELSE seen]

\* a variant that treats a missing identifier as an identifier
StrongStep_NoneKey(item, seen) ==
    LET unique_id == UniqueId(item) IN
    IF unique_id \in seen
    THEN [keep |-> FALSE, seen |-> seen]
    ELSE [keep |-> TRUE, seen |-> seen \cup {unique_id}]

\* one iteration of the loop of agent.py:353-371
StrongStep(item, seen) ==
    LET unique_id == UniqueId(item) IN
    IF unique_id # <<>> /\ unique_id \in seen
    THEN [keep |-> FALSE, seen |-> seen]
    ELSE [keep |-> TRUE,
          seen |-> IF unique_id # <<>> THEN seen \cup {unique_id} ELSE seen]

RECURSIVE StrongLoop(_, _, _, _)
StrongLoop(items, k, seen, kept) ==
    IF k > Len(items) THEN kept
    ELSE LET r == StrongStep(items[k], seen) IN
         StrongLoop(items, k + 1, r.seen,
                    IF r.keep THEN Append(kept, k) ELSE kept)

\* positions of items appended to temp_deduped_items_by_id
DedupByIdIdx(items) == StrongLoop(items, 1, {}, <<>>)

-----------------------------------------------------------------------------
(* Stage 2: title / first-author deduplication, agent.py:379-401 *)

\* norm_title of agent.py:383-385
NormTitle(title) == Strip(SelectSeq(Lower(title), KeepChar))

UnknownAuthor == <<"u","n","k","n","o","w","n","_","a","u","t","h","o","r">>

\* first_author_norm of agent.py:386-390
FirstAuthorNorm(authors) ==
    IF authors # <<>> THEN Strip(Lower(authors[1])) ELSE UnknownAuthor

\* title_author_key of agent.py:392.  hash() of a tuple of two strings is
\* represented by the tuple: equal tuples hash equally, and the 64-bit hash
\* separates the handful of distinct tuples of a run.
TitleAuthorKey(item) == <<NormTitle(item.title), FirstAuthorNorm(item.authors)>>

\* a variant whose seen set is overwritten instead of extended
SoftStep_Overwrite(item, seen) ==
    LET title_author_key == TitleAuthorKey(item) IN
    IF title_author_key \in seen
    THEN [keep |-> FALSE, seen |-> seen]
    ELSE [keep |-> TRUE, seen |-> {title_author_key}]

\* one iteration of the loop of agent.py:382-400
SoftStep(item, seen) ==
    LET title_author_key == TitleAuthorKey(item) IN
    IF title_author_key \in seen
    THEN [keep |-> FALSE, seen |-> seen]
    ELSE [keep |-> TRUE, seen |-> seen \cup {title_author_key}]

RECURSIVE SoftLoop(_, _, _, _)
SoftLoop(items, k, seen, kept) ==
    IF k > Len(items) THEN kept
    ELSE LET r == SoftStep(items[k], seen) IN
         SoftLoop(items, k + 1, r.seen,
                  IF r.keep THEN Append(kept, k) ELSE kept)

\* positions of items appended to final_deduped_items
DedupSoftIdx(items) == SoftLoop(items, 1, {}, <<>>)

\* the sub-list of items at the given positions
ItemsAt(items, idx) == [k \in 1..Len(idx) |-> items[idx[k]]]

\* both passes applied to a list, as agent.py:350-401 does
DedupItems(items) ==
    LET by_id == ItemsAt(items, DedupByIdIdx(items)) IN
    ItemsAt(by_id, DedupSoftIdx(by_id))

-----------------------------------------------------------------------------
(* LiteratureItem values (retrieval/base_retriever.py:10-51).  Only the     *)
(* fields the pipeline reads are kept.                                      *)

Item(id, doi, arxiv_id, title, authors, pdf_url, abstract) ==
    [id |-> id, doi |-> doi, arxiv_id |-> arxiv_id, title |-> title,
     authors |-> authors, pdf_url |-> pdf_url, abstract |-> abstract,
     full_text |-> ""]

AuthorJS == <<"J", ".", " ", "S">>

\* DOI "7X", title "Ab", a PDF and an abstract
P1 == Item("p1", <<"7","X">>, <<>>, <<"A","b">>, <<AuthorJS>>, "pdf1", "abs1")

\* DOI "7x" (the DOI of P1 in another case), another title, no PDF
P2 == Item("p2", <<"7","x">>, <<>>, <<"C","d">>, <<AuthorJS>>, "", "abs2")

\* no DOI, arXiv id "7x"
P3 == Item("p3", <<>>, <<"7","x">>, <<"E","f">>, <<<<"K">>>>, "pdf3", "")

\* no DOI, arXiv id "7X" (the id of P3 in another case)
P4 == Item("p4", <<>>, <<"7","X">>, <<"G","h">>, <<<<"K">>>>, "", "abs4")

\* no DOI, arXiv id "arxiv:7x" (the id of P3 with a source prefix);
\* title " ab" and author "j. s " normalise to those of P1
P5 == Item("p5", <<>>, <<"a","r","x","i","v",":","7","x">>, <<" ","a","b">>,
           <<<<"j", ".", " ", "s", " ">>>>, "", "abs5")

\* no identifier; title "a-b" and author "J S" differ from P1 by punctuation
P6 == Item("p6", <<>>, <<>>, <<"a","-","b">>, <<<<"J", " ", "S">>>>, "pdf6", "abs6")

\* no identifier, no author, a PDF but no abstract
P7 == Item("p7", <<>>, <<>>, <<"I","j">>, <<>>, "pdf7", "")

\* no identifier, first author "Unknown_Author"
P8 == Item("p8", <<>>, <<>>, <<"I","J">>,
           <<<<"U","n","k","n","o","w","n","_","A","u","t","h","o","r">>>>,
           "", "abs8")

\* the items a provider answer is drawn from when deduplication is studied
DedupPool == {P1, P2, P3, P4, P5, P6, P7, P8}

\* the items a provider answer is drawn from when a whole run is studied
RunPool == {P1, P2, P6, P7}

\* all lists of at most n items of a pool
ListsOf(pool, n) == UNION {[1..m -> pool] : m \in 0..n}

-----------------------------------------------------------------------------
(* Agent construction: LLMManager._configure_provider, llm_manager.py:44-72 *)

ProviderConfigs ==
    {[provider |-> "openai", api_key |-> TRUE],
     [provider |-> "openai", api_key |-> FALSE],
     [provider |-> "deepseek", api_key |-> FALSE],
     [provider |-> "ollama", api_key |-> FALSE],
     [provider |-> "mock", api_key |-> FALSE],
     [provider |-> "other", api_key |-> TRUE]}

\* "ok", or the exception _configure_provider raises
ConfigureProvider(cfg) ==
    IF cfg.provider \in {"openai", "deepseek"}
    THEN IF cfg.api_key THEN "ok" ELSE "LLMManagerError"
    ELSE IF cfg.provider \in {"ollama", "mock"} THEN "ok"
    ELSE "LLMManagerError"

-----------------------------------------------------------------------------
(* Pure steps of conduct_literature_review *)

\* _generate_basic_action_plan (agent.py:71-131) in legacy mode: no time
\* limit and no focus, so the steps depend on retrieve_full_text only
GenerateBasicActionPlan(full_text) ==
    <<"topic", "sources", "strategy", "metadata", "trends">>
    \o (IF full_text THEN <<"full_text">> ELSE <<>>)
    \o <<"ai_analysis", "report">>

\* a variant that slices one item too many
TruncateItems_OffByOne(items, n) ==
    IF Len(items) > n THEN SubSeq(items, 1, n + 1) ELSE items

\* agent.py:409-418, retrieved_items[:max_papers] for max_papers >= 0
TruncateItems(items, n) ==
    IF Len(items) > n THEN SubSeq(items, 1, n) ELSE items

\* what the download and extraction of one PDF can do
PdfOutcomes == {"text", "empty", "failed"}

\* PDFProcessor.extract_text_from_url (pdf_processor.py:23-57): every
\* Exception is caught inside and turned into None
ExtractTextFromUrl(pdf_url, outcome) ==
    IF outcome = "text" THEN "full text of " \o pdf_url ELSE ""

\* agent.py:447-448: the text is attached to the item of the loop index
AttachFullText(items, k, content) ==
    IF content # "" THEN [items EXCEPT ![k].full_text = content] ELSE items

\* a variant that leaves the loop at the first PDF without text
NextAfterExtraction_Abort(k, n, content) ==
    IF content = "" THEN n + 1 ELSE k + 1

\* the for loop of agent.py:432-466 goes on to the next item whatever the
\* extraction returned
NextAfterExtraction(k, n, content) == k + 1

\* what extract_research_keywords can do
KeywordOutcomes == {"ok", "raise"}

\* what generate_chat_completion can do for one summary request
LlmOutcomes ==
    {"content", "empty_content", "invalid_format", "llm_error", "auth_rejected"}

LlmFailures == {"invalid_format", "llm_error", "auth_rejected"}

\* Summarizer.summarize_text (summarizer.py:122-158): the summary, or the
\* SummarizerError every failure is wrapped in
SummarizeText(llm) ==
    CASE llm = "content" -> [exc |-> "none", value |-> "summary"]
      [] llm = "empty_content" ->
            [exc |-> "none",
             value |-> "Summary generation resulted in empty content."]
      [] llm = "invalid_format" -> [exc |-> "SummarizerError", value |-> ""]
      [] llm = "llm_error" -> [exc |-> "SummarizerError", value |-> ""]
      [] llm = "auth_rejected" -> [exc |-> "SummarizerError", value |-> ""]

\* a variant whose handler forgets the placeholder
AiSummary_NoPlaceholder(res) ==
    IF res.exc # "none" THEN "" ELSE res.value

\* agent.py:507-523: the handler around summarize_text
AiSummary(res) ==
    IF res.exc # "none" THEN "AI summary generation failed." ELSE res.value

\* agent.py:497-506: the handler around extract_research_keywords
Keywords(kw) == IF kw = "raise" THEN <<>> ELSE <<"keyword">>

\* the dict appended at agent.py:525-547
ProcessedEntry(item, ai_summary, keywords) ==
    [title |-> item.title,
     original_summary |-> item.abstract,
     ai_enhanced_summary |-> ai_summary,
     full_text_retrieved |-> item.full_text # "",
     keywords |-> keywords,
     item_id_internal |-> item.id]

\* text_for_ai of agent.py:486
TextForAi(item) == IF item.full_text # "" THEN item.full_text ELSE item.abstract

\* a variant that gives up the item when keyword extraction throws
AnalyzeEntries_AbortOnKeywords(item, kw, llm) ==
    IF TextForAi(item) = ""
    THEN <<ProcessedEntry(item, "No text content available for summarization.", <<>>)>>
    ELSE IF kw = "raise" THEN <<>>
    ELSE <<ProcessedEntry(item, AiSummary(SummarizeText(llm)), Keywords(kw))>>

\* one iteration of the loop of agent.py:479-547: the entries it appends
AnalyzeEntries(item, kw, llm) ==
    IF TextForAi(item) = ""
    THEN <<ProcessedEntry(item, "No text content available for summarization.", <<>>)>>
    ELSE <<ProcessedEntry(item, AiSummary(SummarizeText(llm)), Keywords(kw))>>

ResultKeys ==
    {"research_topic", "action_plan", "retrieved_items", "processed_papers",
     "num_papers_processed"}

\* a variant that returns without the plan
BuildResults_NoPlan(plan, items, papers) ==
    [research_topic |-> "topic",
     action_plan |-> <<>>,
     retrieved_items |-> items,
     processed_papers |-> papers,
     num_papers_processed |-> Len(papers)]

\* the dict of agent.py:559-565
BuildResults(plan, items, papers) ==
    [research_topic |-> "topic",
     action_plan |-> plan,
     retrieved_items |-> items,
     processed_papers |-> papers,
     num_papers_processed |-> Len(papers)]

NoResults == [pending |-> TRUE]

\* agent.py:298-302: one step per searched source, one for the full-text
\* stage when it is requested, one for the AI stage
TotalSteps(arxiv, full_text) ==
    (IF arxiv THEN 1 ELSE 0) + (IF full_text THEN 1 ELSE 0) + 1

\* a variant that never announces the full-text stage
EnterEnrichment_Never(log, full_text) == log

\* agent.py:420-423: the full-text stage is announced inside
\* `if retrieve_full_text:` only
EnterEnrichment(log, full_text) ==
    IF full_text THEN Append(log, "Enriching") ELSE log

\* what ArxivClient.search can do (arxiv_client.py:133-208): answer, or
\* raise (the 45 s timeout at least)
SearchOutcomes == {"answered", "failed"}

\* a variant whose handler lets the failure of the search end the run
SearchHandler_Reraise(outcome) ==
    IF outcome = "failed"
    THEN [pc |-> "failed", raised |-> "Exception", advance |-> 0]
    ELSE [pc |-> "dedup_id", raised |-> "none", advance |-> 1]

\* agent.py:311-336: the try around the search; the handler logs the failure
\* and the run goes on, without the progress step of agent.py:331
SearchHandler(outcome) ==
    IF outcome = "failed"
    THEN [pc |-> "dedup_id", raised |-> "none", advance |-> 0]
    ELSE [pc |-> "dedup_id", raised |-> "none", advance |-> 1]

\* the dict search_literature builds when asyncio.wait_for times out
\* (api_server.py:843-854): the query, the notice, two hints
TimeoutResults ==
    [processed_papers |-> <<>>,
     action_plan |-> <<"query", "timeout", "retry", "hint">>]

-----------------------------------------------------------------------------
(* LLMManager._make_request, llm_manager.py:74-150 *)

\* what one request can be answered with: a 2xx with a JSON body, a 2xx
\* whose body response.json() rejects, a status raise_for_status() raises
\* on, or an httpx.RequestError (connection failure, timeout)
Responses == {"ok", "bad_json", "401", "403", "429", "500", "transport"}

DefaultMaxRetries == 3

DefaultRateLimitDelay == 5

\* values of LLM_RATE_LIMIT_DELAY
RateLimitDelays == {1, 2, DefaultRateLimitDelay}

NoExc == [type |-> "none"]

NoWait == [kind |-> "none", seconds |-> 0]

\* LLMManagerError (llm_manager.py:17-20) is an Exception with a message;
\* `from e` chains the cause
LLMManagerError(message, cause) ==
    [type |-> "LLMManagerError", message |-> message, cause |-> cause]

\* llm_manager.py:131-133 and 140: asyncio.sleep(1 * (attempt + 1))
GenericBackoff(n) == 1 * (n + 1)

\* a variant that does not scale the delay
RateLimitWait_Unscaled(delay, n) == delay

\* llm_manager.py:121-126: asyncio.sleep(llm_rate_limit_delay * (attempt + 1))
RateLimitWait(delay, n) == delay * (n + 1)

\* a variant whose loop runs once more than configured
LoopContinues_OneMore(n, retries) == n <= retries

\* llm_manager.py:91: for attempt in range(self.max_retries)
LoopContinues(n, retries) == n < retries

\* a variant that retries a rejected credential like any other status
HandleResponse_RetryAuth(resp, n, retries, delay) ==
    CASE resp = "ok" -> [next |-> "returned", exc |-> NoExc, wait |-> NoWait]
      [] resp = "bad_json" ->
            [next |-> "raised", wait |-> NoWait,
             exc |-> LLMManagerError("Unexpected LLM error", resp)]
      [] resp = "429" ->
            [next |-> "loop", exc |-> NoExc,
             wait |-> [kind |-> "rate_limit", seconds |-> RateLimitWait(delay, n)]]
      [] resp \in {"401", "403", "500"} ->
            IF n = retries - 1
            THEN [next |-> "raised", wait |-> NoWait,
                  exc |-> LLMManagerError("HTTP error after retries", resp)]
            ELSE [next |-> "loop", exc |-> NoExc,
                  wait |-> [kind |-> "backoff", seconds |-> GenericBackoff(n)]]
      [] resp = "transport" ->
            IF n = retries - 1
            THEN [next |-> "raised", wait |-> NoWait,
                  exc |-> LLMManagerError("Request error after retries", resp)]
            ELSE [next |-> "loop", exc |-> NoExc,
                  wait |-> [kind |-> "backoff", seconds |-> GenericBackoff(n)]]

\* one iteration of the loop of llm_manager.py:91-146: where the call goes
\* next, the exception it raises and the sleep it makes
HandleResponse(resp, n, retries, delay) ==
    CASE resp = "ok" -> [next |-> "returned", exc |-> NoExc, wait |-> NoWait]
      [] resp = "bad_json" ->
            [next |-> "raised", wait |-> NoWait,
             exc |-> LLMManagerError("Unexpected LLM error", resp)]
      [] resp \in {"401", "403"} ->
            [next |-> "raised", wait |-> NoWait,
             exc |-> LLMManagerError("Authentication error", resp)]
      [] resp = "429" ->
            [next |-> "loop", exc |-> NoExc,
             wait |-> [kind |-> "rate_limit", seconds |-> RateLimitWait(delay, n)]]
      [] resp = "500" ->
            IF n = retries - 1
            THEN [next |-> "raised", wait |-> NoWait,
                  exc |-> LLMManagerError("HTTP error after retries", resp)]
            ELSE [next |-> "loop", exc |-> NoExc,
                  wait |-> [kind |-> "backoff", seconds |-> GenericBackoff(n)]]
      [] resp = "transport" ->
            IF n = retries - 1
            THEN [next |-> "raised", wait |-> NoWait,
                  exc |-> LLMManagerError("Request error after retries", resp)]
            ELSE [next |-> "loop", exc |-> NoExc,
                  wait |-> [kind |-> "backoff", seconds |-> GenericBackoff(n)]]

\* no call of _make_request is under way
RequestIdle ==
    /\ req_pc = "idle"
    /\ max_retries = DefaultMaxRetries
    /\ rate_limit_delay = DefaultRateLimitDelay
    /\ attempt = 0
    /\ responses = <<>>
    /\ sleeps = <<>>
    /\ req_exc = NoExc

-----------------------------------------------------------------------------
(* LLMManager.generate_embedding, llm_manager.py:235-369 *)

\* the three fields of the manager the fallback swaps
Fields(p, k, u) == [provider |-> p, api_key |-> k, base_url |-> u]

\* _configure_provider for deepseek (llm_manager.py:52-59)
DeepSeekFields == Fields("deepseek", "deepseek_key", "https://api.deepseek.com/v1")

\* _configure_provider for openai (llm_manager.py:45-51)
OpenAIFields == Fields("openai", "openai_key", "https://api.openai.com/v1")

\* llm_manager.py:310-312: the fields while the fallback request is made
SwapToOpenAI(key) == Fields("openai", key, "https://api.openai.com/v1")

NoRead == [kind |-> "none"]

\* the bodies a 2xx answer of the embeddings endpoint can have
EmbeddingBodies == {"data_list", "malformed"}

\* llm_manager.py:325-343 and 357-365: the embeddings of the body, or the
\* error raised on a body without a "data" list; the fallback wraps every
\* failure in a second LLMManagerError
ParseEmbeddings(body, fallback) ==
    IF body = "data_list"
    THEN [next |-> "returned", exc |-> NoExc]
    ELSE [next |-> "raised",
          exc |-> IF fallback
                  THEN LLMManagerError("Failed to get embeddings using OpenAI fallback",
                                       "none")
                  ELSE LLMManagerError("Unexpected embedding response format", "none")]

\* a manager as _configure_provider left it, no call under way
EmbeddingIdle ==
    /\ provider = DeepSeekFields.provider
    /\ api_key = DeepSeekFields.api_key
    /\ base_url = DeepSeekFields.base_url
    /\ openai_api_key = ""
    /\ emb_pc = "idle"
    /\ temp = Fields("", "", "")
    /\ pre_call = Fields("", "", "")
    /\ emb_exc = NoExc
    /\ other_read = NoRead

-----------------------------------------------------------------------------
(* ReportGenerator.generate_comprehensive_report, report_generator.py:37-115 *)

\* the names of the tasks list, in its order (report_generator.py:60-84)
SectionNames ==
    <<"executive_summary", "literature_overview", "temporal_analysis",
      "keyword_analysis", "methodology_analysis", "collaboration_analysis",
      "emerging_topics", "key_findings">>

NumSections == 8

\* the order in which _compile_markdown_report looks at the sections
\* (report_generator.py:369-499)
DocumentOrder ==
    <<"executive_summary", "literature_overview", "temporal_analysis",
      "keyword_analysis", "key_findings", "methodology_analysis",
      "emerging_topics", "collaboration_analysis">>

Pending == [kind |-> "pending"]

None == [kind |-> "None"]

\* what gather(..., return_exceptions=True) can hold for a task: the value
\* it returned, with something to print ("content") or without ({} or [],
\* which the analyzers return when they have no data), or the exception it
\* raised
TaskOutcomes == {"content", "empty", "exception"}

TaskResult(t, kind) == [kind |-> kind, of |-> SectionNames[t]]

IsException(r) == r.kind = "exception"

\* a variant that keeps whatever gather returned
SectionValue_KeepException(r) == r

\* report_generator.py:94-98: the section of a task that raised is None
SectionValue(r) == IF IsException(r) THEN None ELSE r

\* report_sections of report_generator.py:92-98, keyed by the position of
\* the task in the tasks list
ReportSections(gathered) ==
    [t \in 1..NumSections |-> SectionValue(gathered[t])]

\* Python truthiness of a section: None, {} and [] are false
Truthy(v) == v.kind \notin {"None", "empty"}

IndexOf(name) == CHOOSE t \in 1..NumSections : SectionNames[t] = name

RECURSIVE CompileFrom(_, _)
\* the part of the document written for the sections from position k of
\* DocumentOrder on: one heading and body per section that is truthy
CompileFrom(sections, k) ==
    IF k > NumSections THEN <<>>
    ELSE LET name == DocumentOrder[k]
             v == sections[IndexOf(name)]
         IN (IF Truthy(v) THEN <<[heading |-> name, body |-> v]>> ELSE <<>>)
            \o CompileFrom(sections, k + 1)

\* _compile_markdown_report (report_generator.py:355-514), between the
\* title and the footer
CompileMarkdownReport(sections) == CompileFrom(sections, 1)

NoReport == [pending |-> TRUE]

\* the dict of report_generator.py:105-115
BuildReport(sections) ==
    [content |-> CompileMarkdownReport(sections),
     metadata |-> [sections |-> SectionNames],
     sections |-> sections]

\* no report is being generated
ReportIdle ==
    /\ rep_pc = "idle"
    /\ task_result = [t \in 1..NumSections |-> Pending]
    /\ report = NoReport

-----------------------------------------------------------------------------
(* ArxivClient.search and translate_chinese_query, arxiv_client.py:87-208  *)
(* A query is a sequence of characters.  A CJK character is written by its *)
(* code point: "U6DF1" is one character.                                    *)

\* the characters of the range U+4E00..U+9FFF the model uses
ChineseChars ==
    {"U6DF1", "U5EA6", "U5B66", "U4E60", "U795E", "U7ECF", "U7F51", "U7EDC",
     "U5377", "U79EF", "U533B", "U7597", "U7684", "U7814", "U7A76", "U7B97",
     "U6CD5", "U91CF", "U5B50"}

\* arxiv_client.py:101
HasChinese(q) == \E k \in 1..Len(q) : q[k] \in ChineseChars

\* entries of CHINESE_TO_ENGLISH (arxiv_client.py:17-59), in the order of
\* the dict: lines 19, 22, 23, 41 and 51
ChineseToEnglish ==
    <<[chinese |-> <<"U6DF1", "U5EA6", "U5B66", "U4E60">>,
       english |-> <<"d", "e", "e", "p", " ", "l", "e", "a", "r", "n", "i", "n", "g">>],
      [chinese |-> <<"U795E", "U7ECF", "U7F51", "U7EDC">>,
       english |-> <<"n", "e", "u", "r", "a", "l", " ", "n", "e", "t", "w", "o", "r", "k">>],
      [chinese |-> <<"U5377", "U79EF", "U795E", "U7ECF", "U7F51", "U7EDC">>,
       english |-> <<"c", "o", "n", "v", "o", "l", "u", "t", "i", "o", "n", "a", "l", " ", "n", "e", "u", "r", "a", "l", " ", "n", "e", "t", "w", "o", "r", "k">>],
      [chinese |-> <<"U533B", "U7597">>,
       english |-> <<"m", "e", "d", "i", "c", "a", "l">>],
      [chinese |-> <<"U7B97", "U6CD5">>,
       english |-> <<"a", "l", "g", "o", "r", "i", "t", "h", "m">>]>>

\* entries of chinese_stopwords (arxiv_client.py:116-117), in their order
ChineseStopwords ==
    <<<<"U7684">>, <<"U7814", "U7A76">>, <<"U7B97", "U6CD5">>>>

\* the default of arxiv_client.py:126
DefaultQuery == <<"m", "a", "c", "h", "i", "n", "e", " ", "l", "e", "a", "r", "n", "i", "n", "g">>

RECURSIVE Replace(_, _, _)
\* str.replace(old, new): every occurrence, left to right, not overlapping
Replace(str, old, new) ==
    IF Len(str) < Len(old) \/ Len(old) = 0 THEN str
    ELSE IF SubSeq(str, 1, Len(old)) = old
    THEN new \o Replace(SubSeq(str, Len(old) + 1, Len(str)), old, new)
    ELSE <<Head(str)>> \o Replace(Tail(str), old, new)

RECURSIVE ReplaceKeywords(_, _)
\* the loop of arxiv_client.py:110-113, from entry k of the table on
ReplaceKeywords(str, k) ==
    IF k > Len(ChineseToEnglish) THEN str
    ELSE ReplaceKeywords(Replace(str, ChineseToEnglish[k].chinese,
                                 ChineseToEnglish[k].english), k + 1)

RECURSIVE RemoveStopwords(_, _)
\* the loop of arxiv_client.py:118-119
RemoveStopwords(str, k) ==
    IF k > Len(ChineseStopwords) THEN str
    ELSE RemoveStopwords(Replace(str, ChineseStopwords[k], <<" ">>), k + 1)

RECURSIVE SqueezeSpaces(_)
\* runs of white space become one space
SqueezeSpaces(str) ==
    IF Len(str) < 2 THEN str
    ELSE IF IsSpace(str[1]) /\ IsSpace(str[2]) THEN SqueezeSpaces(Tail(str))
    ELSE <<IF IsSpace(str[1]) THEN " " ELSE str[1]>> \o SqueezeSpaces(Tail(str))

\* " ".join(str.split()), arxiv_client.py:122
JoinSplit(str) == Strip(SqueezeSpaces(str))

\* a variant that falls back on an empty translation only
NeedsDefault_EmptyOnly(str) == Strip(str) = <<>>

\* the test of arxiv_client.py:125
NeedsDefault(str) == Strip(str) = <<>> \/ Len(Strip(str)) < 3

\* translate_chinese_query, arxiv_client.py:87-131
TranslateChineseQuery(q) ==
    IF q = <<>> \/ ~HasChinese(q) THEN q
    ELSE LET translated == JoinSplit(RemoveStopwords(ReplaceKeywords(q, 1), 1))
         IN IF NeedsDefault(translated) THEN DefaultQuery ELSE translated

\* timeout=45 of arxiv_client.py:190
SearchTimeout == 45

\* a variant that waits for the provider for ever
TimedOut_Never(seconds) == FALSE

\* asyncio.wait_for(..., timeout=45), arxiv_client.py:188-191
TimedOut(seconds) == seconds >= SearchTimeout

\* what self.client.results(search) and the conversion of its entries can
\* do once the provider has answered
ProviderOutcomes == {"results", "api_error", "bad_entry"}

\* the lists the provider can answer with
ProviderAnswersSet == {<<>>, <<"entry1">>, <<"entry1", "entry2">>}

\* search_arxiv, arxiv_client.py:180-185: an error of the API is logged and
\* turned into the empty list
SearchArxiv(outcome, answer) == IF outcome = "api_error" THEN <<>> ELSE answer

\* arxiv_client.py:193-208: the converted items, or the Exception every
\* failure after the request is wrapped in
FinishSearch(outcome, answer) ==
    IF outcome = "bad_entry" /\ answer # <<>>
    THEN [next |-> "raised", value |-> <<>>,
          exc |-> [type |-> "Exception", message |-> "ArXiv search failed"]]
    ELSE [next |-> "returned", value |-> SearchArxiv(outcome, answer),
          exc |-> NoExc]

\* the terms queries are made of
QueryTerms ==
    {<<>>,
     <<" ">>,
     <<"a", "b">>,
     <<"a", "b", "c">>,
     <<"U6DF1", "U5EA6", "U5B66", "U4E60">>,
     <<"U795E", "U7ECF", "U7F51", "U7EDC">>,
     <<"U5377", "U79EF", "U795E", "U7ECF", "U7F51", "U7EDC">>,
     <<"U533B", "U7597">>,
     <<"U7684">>,
     <<"U7814", "U7A76">>,
     <<"U91CF", "U5B50">>,
     <<"U91CF", "U5B50", "U5B50">>}

RECURSIVE QueriesOf(_)
\* the concatenations of at most n terms
QueriesOf(n) ==
    IF n = 0 THEN {<<>>}
    ELSE {q \o t : q \in QueriesOf(n - 1), t \in QueryTerms}

\* no search is under way
SearchIdle ==
    /\ s_pc = "idle"
    /\ query = <<>>
    /\ dispatched = <<>>
    /\ elapsed = 0
    /\ search_result = <<>>
    /\ search_exc = NoExc
    /\ provider_outcome = "none"

-----------------------------------------------------------------------------
(* The balance of a user: user_db.py:303-384 and 435-439, and the endpoints *)
(* of api_server.py that read and change it.  Money is counted in tenths   *)
(* of a yuan; an amount is a pair of limbs, g * 10^9 + r tenths, so that   *)
(* sums beyond 2^31 are kept exactly.                                       *)

Money(g, r) == [g |-> g, r |-> r]

\* an amount given in tenths of a yuan, below 10^9
Tenths(n) == Money(0, n)

\* an amount given in whole yuan
Yuan(y) == Money(y \div 100000000, (y % 100000000) * 10)

\* user.balance += amount (user_db.py:331)
Plus(a, b) ==
    LET low == a.r + b.r
    IN Money(a.g + b.g + low \div 1000000000, low % 1000000000)

\* user.balance >= required_amount (user_db.py:363 and 384)
AtLeast(a, b) == a.g > b.g \/ (a.g = b.g /\ a.r >= b.r)

\* user.balance -= amount (user_db.py:367), for a balance that covers it
Minus(a, b) ==
    IF a.r >= b.r THEN Money(a.g - b.g, a.r - b.r)
    ELSE Money(a.g - b.g - 1, a.r + 1000000000 - b.r)

\* amount <= 0 is false (user_db.py:324 and 354)
Positive(a) == a.g > 0 \/ (a.g = 0 /\ a.r > 0)

\* 0.1 yuan for a paper (user_db.py:438)
PricePerPaper == 1

\* at least 0.5 yuan for a search (user_db.py:439)
MinimumCharge == 5

\* calculate_search_cost, user_db.py:435-439
CalculateSearchCost(papers_count) ==
    IF papers_count * PricePerPaper > MinimumCharge
    THEN Tenths(papers_count * PricePerPaper)
    ELSE Tenths(MinimumCharge)

\* a variant without a test of the balance
CheckBalance_AlwaysPasses(db, user, funds, papers_count) ==
    IF db /\ user THEN [check |-> "passed",
                        search_cost |-> CalculateSearchCost(papers_count)]
    ELSE [check |-> "skipped", search_cost |-> Tenths(0)]

\* api_server.py:776-809: the cost of the search and the test of the balance
CheckBalance(db, user, funds, papers_count) ==
    IF db /\ user
    THEN [check |-> IF AtLeast(funds, CalculateSearchCost(papers_count))
                    THEN "passed" ELSE "insufficient",
          search_cost |-> CalculateSearchCost(papers_count)]
    ELSE [check |-> "skipped", search_cost |-> Tenths(0)]

\* deduct_balance, user_db.py:350-378: whether it succeeds
CanDeduct(user, funds, amount) ==
    Positive(amount) /\ user /\ AtLeast(funds, amount)

\* the values of maxPapers of a request
PaperCounts == {1, 10}

\* the number of papers a search finds
FoundCounts == {0, 1}

\* what the awaited pipeline does: it returns, it exceeds the 300 seconds
\* (api_server.py:843-854) or it raises
PipelineOutcomes == {"papers", "timeout", "raised"}

\* the balances a user starts with
StartBalances == {Tenths(0), Tenths(5), Tenths(10), Tenths(20)}

\* a request of /api/search that has not arrived
NoRequest ==
    [pc |-> "idle", search_cost |-> Tenths(0), check |-> "none",
     invoked |-> FALSE, deduction |-> "none", status |-> 0]

\* the row of the authenticated user
RealUser == [id |-> 1, username |-> "demo"]

\* the seconds the clock shows while orders are made
Timestamps == {1700000000, 1700000001}

\* valid_amounts of api_server.py:1089
ValidAmounts == {10, 50, 100, 200}

\* the amounts the user asks for
RequestedAmounts == {10, 50}

\* api_server.py:1100: f"recharge_{real_user.id}_{timestamp}", as the parts
\* order_id.split("_") yields
MakeOrderId(user_id, timestamp) == <<"recharge", user_id, timestamp>>

\* api_server.py:1126-1134: the user and the amount read from an order id
ParseOrderId(parts) ==
    IF Len(parts) # 3 \/ parts[1] # "recharge"
    THEN [valid |-> FALSE, user_id |-> 0, amount |-> 0]
    ELSE [valid |-> TRUE, user_id |-> parts[2], amount |-> parts[3]]

\* no request is under way and nothing has been paid
BillingIdle ==
    /\ db_available = TRUE
    /\ user_exists = TRUE
    /\ balance = Tenths(0)
    /\ total_amount_spent = Tenths(0)
    /\ total_papers_searched = 0
    /\ usage_records = <<>>
    /\ recharge_records = <<>>
    /\ req = [r \in 1..MaxRequests |-> NoRequest]
    /\ now = 1700000000
    /\ orders = {}

-----------------------------------------------------------------------------
(* CacheManager, utils/cache_manager.py: the file of one key and the       *)
(* threads that call get, set, delete and cleanup_expired for it.  The     *)
(* class takes no lock, so the threads interleave at every system call     *)

\* no file at the cache path
Absent == [exists |-> FALSE]

\* a file at the cache path: what it holds, whether its age exceeds the
\* ttl, and which file it is
File(content, stale, inode) ==
    [exists |-> TRUE, content |-> content, stale |-> stale, inode |-> inode]

\* what a file holds between open(cache_path, 'wb') and the end of
\* pickle.dump
Partial == "partial"

\* the operations a thread can call
CacheOps == {"get", "set", "delete", "cleanup_expired"}

\* the values passed to set
CacheValues == {"v1", "v2"}

\* the first position of each operation
FirstStep(op) ==
    CASE op = "get" -> "g_exists"
      [] op = "set" -> "s_open"
      [] op = "delete" -> "d_exists"
      [] op = "cleanup_expired" -> "c_glob"

NoReturn == [kind |-> "none"]

Returned(v) == [kind |-> "returned", value |-> v]

Raised(e) == [kind |-> "raised", exc |-> e]

\* a thread that has not called the cache
IdleThread ==
    [op |-> "none", pc |-> "idle", value |-> "none", handle |-> 0,
     ret |-> NoReturn]

\* Path.exists() at the positions that call it (cache_manager.py:57, 82,
\* 95, 141) and the glob of line 199: the next position and the return
AfterExists(pc_, present) ==
    CASE pc_ = "g_exists" ->
            [pc |-> IF present THEN "g_stat" ELSE "g_exists2", ret |-> NoReturn]
      [] pc_ = "g_exists2" ->
            IF present THEN [pc |-> "g_unlink", ret |-> NoReturn]
            ELSE [pc |-> "done", ret |-> Returned("None")]
      [] pc_ = "d_exists" ->
            IF present THEN [pc |-> "d_unlink", ret |-> NoReturn]
            ELSE [pc |-> "done", ret |-> Returned("False")]
      [] pc_ = "c_glob" ->
            IF present THEN [pc |-> "c_exists", ret |-> NoReturn]
            ELSE [pc |-> "done", ret |-> Returned("0")]
      [] pc_ = "c_exists" ->
            [pc |-> IF present THEN "c_stat" ELSE "c_unlink", ret |-> NoReturn]

\* cache_path.stat() in _is_expired (cache_manager.py:60-61), called by get
\* (line 81) and by cleanup_expired (line 200) outside any try
AfterStat(pc_, file) ==
    IF ~file.exists
    THEN [pc |-> "done", ret |-> Raised("FileNotFoundError")]
    ELSE CASE pc_ = "g_stat" ->
                 [pc |-> IF file.stale THEN "g_exists2" ELSE "g_open",
                  ret |-> NoReturn]
           [] pc_ = "c_stat" ->
                 IF file.stale THEN [pc |-> "c_unlink", ret |-> NoReturn]
                 ELSE [pc |-> "done", ret |-> Returned("0")]

\* cache_path.unlink() (cache_manager.py:83, 96, 142) and cache_file.unlink()
\* inside the try of lines 201-205
AfterUnlink(pc_, present) ==
    CASE pc_ = "g_unlink" ->
            IF present THEN [pc |-> "done", ret |-> Returned("None")]
            ELSE [pc |-> "done", ret |-> Raised("FileNotFoundError")]
      [] pc_ = "d_unlink" ->
            IF present THEN [pc |-> "done", ret |-> Returned("True")]
            ELSE [pc |-> "done", ret |-> Raised("FileNotFoundError")]
      [] pc_ = "c_unlink" ->
            [pc |-> "done", ret |-> Returned(IF present THEN "1" ELSE "0")]

\* cache_manager.py:86-97: open and pickle.load; a missing or truncated
\* file is caught and leads to the removal of the file
AfterLoad(file) ==
    IF ~file.exists \/ file.content = Partial
    THEN [pc |-> "g_exists2", ret |-> NoReturn]
    ELSE [pc |-> "done", ret |-> Returned(file.content)]

\* no thread uses the cache and the path holds no file
CacheIdle ==
    /\ cache_file = Absent
    /\ inodes = 0
    /\ th = [t \in 1..MaxThreads |-> IdleThread]
    /\ set_values = {}

\* no component around the pipeline is in use
ServicesIdle ==
    /\ SearchIdle
    /\ BillingIdle
    /\ CacheIdle

-----------------------------------------------------------------------------
(* The run *)

\* no run has started
RunIdle ==
    /\ pc = "new"
    /\ max_papers = 0
    /\ retrieve_full_text = FALSE
    /\ arxiv_active = FALSE
    /\ action_plan = <<>>
    /\ fetched = <<>>
    /\ source_outcome = "none"
    /\ kept_id = <<>>
    /\ kept_soft = <<>>
    /\ retrieved_items = <<>>
    /\ i = 1
    /\ enrich_outcome = <<>>
    /\ analysis_outcome = <<>>
    /\ processed_papers = <<>>
    /\ results = NoResults
    /\ raised = "none"
    /\ stage_log = <<>>
    /\ total_steps = 0
    /\ progress_done = 0
    /\ cancelled_at = "none"
    /\ research_topic = "none"
    /\ raw_query = "none"

Init ==
    /\ RunIdle
    /\ RequestIdle
    /\ EmbeddingIdle
    /\ ReportIdle
    /\ ServicesIdle

\* LiteratureAgent.__init__ (agent.py:33-69): building the LLMManager raises
\* when the provider is not configured
Construct ==
    /\ pc = "new"
    /\ \E cfg \in ProviderConfigs :
         IF ConfigureProvider(cfg) = "ok"
         THEN /\ pc' = "ready"
              /\ raised' = raised
         ELSE /\ pc' = "config_failed"
              /\ raised' = ConfigureProvider(cfg)
    /\ UNCHANGED <<max_papers, retrieve_full_text, arxiv_active, action_plan,
                   fetched, source_outcome, kept_id, kept_soft,
                   retrieved_items, i, enrich_outcome, analysis_outcome,
                   processed_papers, results, progressVars, cancelled_at>>
    /\ UNCHANGED otherVars

\* the values of an optional string argument: None or a text
ArgValues == {"none", "text"}

\* Python truthiness of an optional string
Supplied(v) == v \notin {"none", ""}

\* llm_manager.py:371-498, extract_core_research_params(raw).get("topic"):
\* the topic the model named, or the query itself (lines 449 and 480)
ParsedTopic(raw, named) == IF Supplied(named) THEN named ELSE raw

\* agent.py:161-220: what the call does with its two query arguments
ValidateQuery(topic, raw, named) ==
    IF Supplied(raw) /\ ~Supplied(topic)
    THEN IF ~Supplied(ParsedTopic(raw, named))
         THEN [proceed |-> FALSE, error |-> "Missing research topic"]
         ELSE [proceed |-> TRUE, error |-> "none"]
    ELSE IF Supplied(topic) /\ ~Supplied(raw)
    THEN [proceed |-> TRUE, error |-> "none"]
    ELSE [proceed |-> FALSE, error |-> "Missing query parameters"]

\* conduct_literature_review up to the outer try (agent.py:161-307), for
\* arguments that pass the validation
StartReview ==
    /\ pc = "ready"
    /\ \E topic \in ArgValues, raw \in ArgValues, named \in ArgValues :
         /\ ValidateQuery(topic, raw, named).proceed
         /\ research_topic' = topic
         /\ raw_query' = raw
    /\ \E mp \in 0..MaxPapers, ft \in BOOLEAN, src \in BOOLEAN :
         /\ max_papers' = mp
         /\ retrieve_full_text' = ft
         /\ arxiv_active' = src
         /\ action_plan' = GenerateBasicActionPlan(ft)
         /\ total_steps' = TotalSteps(src, ft)
    /\ stage_log' = <<"Retrieving">>
    /\ progress_done' = 0
    /\ pc' = "retrieve"
    /\ UNCHANGED <<fetched, source_outcome, kept_id, kept_soft,
                   retrieved_items, i, enrich_outcome, analysis_outcome,
                   processed_papers, results, raised, cancelled_at>>
    /\ UNCHANGED aroundRun

\* agent.py:174-178 and 218-220: the call returns an error dict before
\* anything is searched
RejectQuery ==
    /\ pc = "ready"
    /\ \E topic \in ArgValues, raw \in ArgValues, named \in ArgValues :
         /\ ~ValidateQuery(topic, raw, named).proceed
         /\ research_topic' = topic
         /\ raw_query' = raw
         /\ results' = [error |-> ValidateQuery(topic, raw, named).error]
    /\ pc' = "rejected"
    /\ UNCHANGED <<max_papers, retrieve_full_text, arxiv_active, action_plan,
                   fetched, source_outcome, kept_id, kept_soft,
                   retrieved_items, i, enrich_outcome, analysis_outcome,
                   processed_papers, raised, stage_log, total_steps,
                   progress_done, cancelled_at>>
    /\ UNCHANGED aroundRun

\* agent.py:310-336: the arXiv search and the handler around it; a search
\* that raises leaves retrieved_items as it was
RetrieveArxiv ==
    /\ pc = "retrieve"
    /\ arxiv_active
    /\ \E outcome \in SearchOutcomes :
         /\ source_outcome' = outcome
         /\ IF outcome = "answered"
            THEN \E answer \in ListsOf(RunPool, MaxFetched) :
                   retrieved_items' = retrieved_items \o answer
            ELSE retrieved_items' = retrieved_items
         /\ pc' = SearchHandler(outcome).pc
         /\ raised' = SearchHandler(outcome).raised
         /\ progress_done' = progress_done + SearchHandler(outcome).advance
    /\ fetched' = retrieved_items'
    /\ UNCHANGED <<max_papers, retrieve_full_text, arxiv_active, action_plan,
                   kept_id, kept_soft, i, enrich_outcome, analysis_outcome,
                   processed_papers, results, stage_log, total_steps,
                   cancelled_at>>
    /\ UNCHANGED otherVars

\* agent.py:310: no active source, nothing is searched
RetrieveNothing ==
    /\ pc = "retrieve"
    /\ ~arxiv_active
    /\ source_outcome' = "skipped"
    /\ pc' = "dedup_id"
    /\ UNCHANGED <<max_papers, retrieve_full_text, arxiv_active, action_plan,
                   fetched, kept_id, kept_soft, retrieved_items, i,
                   enrich_outcome, analysis_outcome, processed_papers,
                   results, raised, progressVars, cancelled_at>>
    /\ UNCHANGED otherVars

\* agent.py:340-372: the deduplication is announced, then the ID pass runs
DedupById ==
    /\ pc = "dedup_id"
    /\ stage_log' = Append(stage_log, "Deduplicating")
    /\ kept_id' = DedupByIdIdx(retrieved_items)
    /\ retrieved_items' = ItemsAt(retrieved_items, kept_id')
    /\ pc' = "dedup_soft"
    /\ UNCHANGED <<max_papers, retrieve_full_text, arxiv_active, action_plan,
                   fetched, source_outcome, kept_soft, i, enrich_outcome,
                   analysis_outcome, processed_papers, results, raised,
                   total_steps, progress_done, cancelled_at>>
    /\ UNCHANGED otherVars

\* agent.py:379-401
DedupSoft ==
    /\ pc = "dedup_soft"
    /\ LET idx == DedupSoftIdx(retrieved_items) IN
         /\ kept_soft' = ItemsAt(kept_id, idx)
         /\ retrieved_items' = ItemsAt(retrieved_items, idx)
    /\ pc' = "truncate"
    /\ UNCHANGED <<max_papers, retrieve_full_text, arxiv_active, action_plan,
                   fetched, source_outcome, kept_id, i, enrich_outcome,
                   analysis_outcome, processed_papers, results, raised,
                   progressVars, cancelled_at>>
    /\ UNCHANGED otherVars

\* agent.py:409-429: the truncation, then the test that guards the
\* full-text stage
Truncate ==
    /\ pc = "truncate"
    /\ retrieved_items' = TruncateItems(retrieved_items, max_papers)
    /\ stage_log' = EnterEnrichment(stage_log, retrieve_full_text)
    /\ pc' = "enrich"
    /\ i' = 1
    /\ UNCHANGED <<max_papers, retrieve_full_text, arxiv_active, action_plan,
                   fetched, source_outcome, kept_id, kept_soft,
                   enrich_outcome, analysis_outcome, processed_papers,
                   results, raised, total_steps, progress_done, cancelled_at>>
    /\ UNCHANGED otherVars

\* agent.py:420, 473-477: retrieve_full_text is off, the block is jumped
\* over and the AI stage is announced
SkipEnrichment ==
    /\ pc = "enrich"
    /\ ~retrieve_full_text
    /\ stage_log' = Append(stage_log, "Analyzing")
    /\ pc' = "analyze"
    /\ i' = 1
    /\ UNCHANGED <<max_papers, retrieve_full_text, arxiv_active, action_plan,
                   fetched, source_outcome, kept_id, kept_soft,
                   retrieved_items, enrich_outcome, analysis_outcome,
                   processed_papers, results, raised, total_steps,
                   progress_done, cancelled_at>>
    /\ UNCHANGED otherVars

\* one iteration of the loop of agent.py:432-466
EnrichItem ==
    /\ pc = "enrich"
    /\ retrieve_full_text
    /\ i <= Len(retrieved_items)
    /\ IF retrieved_items[i].pdf_url # ""
       THEN \E outcome \in PdfOutcomes :
              LET content == ExtractTextFromUrl(retrieved_items[i].pdf_url, outcome) IN
                /\ retrieved_items' = AttachFullText(retrieved_items, i, content)
                /\ enrich_outcome' = Append(enrich_outcome, outcome)
                /\ i' = NextAfterExtraction(i, Len(retrieved_items), content)
       ELSE /\ retrieved_items' = retrieved_items
            /\ enrich_outcome' = Append(enrich_outcome, "no_pdf_url")
            /\ i' = i + 1
    /\ UNCHANGED <<pc, max_papers, retrieve_full_text, arxiv_active,
                   action_plan, fetched, source_outcome, kept_id, kept_soft,
                   analysis_outcome, processed_papers, results, raised,
                   progressVars, cancelled_at>>
    /\ UNCHANGED otherVars

\* agent.py:468-477: the loop is over, its progress step is counted and the
\* AI stage is announced
FinishEnrichment ==
    /\ pc = "enrich"
    /\ retrieve_full_text
    /\ i > Len(retrieved_items)
    /\ progress_done' = progress_done + 1
    /\ stage_log' = Append(stage_log, "Analyzing")
    /\ pc' = "analyze"
    /\ i' = 1
    /\ UNCHANGED <<max_papers, retrieve_full_text, arxiv_active, action_plan,
                   fetched, source_outcome, kept_id, kept_soft,
                   retrieved_items, enrich_outcome, analysis_outcome,
                   processed_papers, results, raised, total_steps,
                   cancelled_at>>
    /\ UNCHANGED otherVars

\* one iteration of the loop of agent.py:479-547
AnalyzeItem ==
    /\ pc = "analyze"
    /\ i <= Len(retrieved_items)
    /\ IF TextForAi(retrieved_items[i]) = ""
       THEN /\ processed_papers' =
                 processed_papers \o
                 AnalyzeEntries(retrieved_items[i], "not_called", "not_called")
            /\ analysis_outcome' =
                 Append(analysis_outcome,
                        [kw |-> "not_called", llm |-> "not_called"])
       ELSE \E kw \in KeywordOutcomes, llm \in LlmOutcomes :
              /\ processed_papers' =
                   processed_papers \o AnalyzeEntries(retrieved_items[i], kw, llm)
              /\ analysis_outcome' =
                   Append(analysis_outcome, [kw |-> kw, llm |-> llm])
    /\ i' = i + 1
    /\ UNCHANGED <<pc, max_papers, retrieve_full_text, arxiv_active,
                   action_plan, fetched, source_outcome, kept_id, kept_soft,
                   retrieved_items, enrich_outcome, results, raised,
                   progressVars, cancelled_at>>
    /\ UNCHANGED otherVars

\* agent.py:549-591: the loop is over, its progress step is counted, the
\* dict is built and returned
ReturnResults ==
    /\ pc = "analyze"
    /\ i > Len(retrieved_items)
    /\ progress_done' = progress_done + 1
    /\ stage_log' = stage_log \o <<"Compiling", "Done">>
    /\ results' = BuildResults(action_plan, retrieved_items, processed_papers)
    /\ pc' = "done"
    /\ UNCHANGED <<max_papers, retrieve_full_text, arxiv_active, action_plan,
                   fetched, source_outcome, kept_id, kept_soft,
                   retrieved_items, i, enrich_outcome, analysis_outcome,
                   processed_papers, raised, total_steps, cancelled_at>>
    /\ UNCHANGED otherVars

\* the call the run is suspended in: the arXiv search (agent.py:321), the
\* download of a PDF (agent.py:443) or the summary request (agent.py:509)
InFlight ==
    \/ pc = "retrieve" /\ arxiv_active
    \/ /\ pc = "enrich"
       /\ retrieve_full_text
       /\ i <= Len(retrieved_items)
       /\ retrieved_items[i].pdf_url # ""
    \/ /\ pc = "analyze"
       /\ i <= Len(retrieved_items)
       /\ TextForAi(retrieved_items[i]) # ""

\* search_literature (api_server.py:817-854): the 300 s of asyncio.wait_for
\* are over while the run is suspended; the run is cancelled where it is
\* and the handler replaces its result
BudgetExpires ==
    /\ InFlight
    /\ cancelled_at' = pc
    /\ pc' = "timed_out"
    /\ results' = TimeoutResults
    /\ UNCHANGED <<max_papers, retrieve_full_text, arxiv_active, action_plan,
                   fetched, source_outcome, kept_id, kept_soft,
                   retrieved_items, i, enrich_outcome, analysis_outcome,
                   processed_papers, raised, progressVars>>
    /\ UNCHANGED otherVars

Next ==
    \/ Construct
    \/ StartReview
    \/ RejectQuery
    \/ RetrieveArxiv
    \/ RetrieveNothing
    \/ DedupById
    \/ DedupSoft
    \/ Truncate
    \/ SkipEnrichment
    \/ EnrichItem
    \/ FinishEnrichment
    \/ AnalyzeItem
    \/ ReturnResults
    \/ BudgetExpires

Spec == Init /\ [][Next]_vars

-----------------------------------------------------------------------------
(* The two deduplication passes and the truncation on their own, started   *)
(* in the state the run is in when retrieval has answered                  *)

InitDedup ==
    /\ pc = "dedup_id"
    /\ max_papers \in 0..MaxPapers
    /\ retrieve_full_text = FALSE
    /\ arxiv_active = TRUE
    /\ action_plan = GenerateBasicActionPlan(FALSE)
    /\ fetched \in ListsOf(DedupPool, MaxFetched)
    /\ source_outcome = "answered"
    /\ kept_id = <<>>
    /\ kept_soft = <<>>
    /\ retrieved_items = fetched
    /\ i = 1
    /\ enrich_outcome = <<>>
    /\ analysis_outcome = <<>>
    /\ processed_papers = <<>>
    /\ results = NoResults
    /\ raised = "none"
    /\ stage_log = <<"Retrieving">>
    /\ total_steps = TotalSteps(TRUE, FALSE)
    /\ progress_done = 1
    /\ cancelled_at = "none"
    /\ RequestIdle
    /\ EmbeddingIdle
    /\ ReportIdle
    /\ ServicesIdle
    /\ research_topic = "text"
    /\ raw_query = "none"

NextDedup ==
    \/ DedupById
    \/ DedupSoft
    \/ Truncate

SpecDedup == InitDedup /\ [][NextDedup]_vars

-----------------------------------------------------------------------------
(* One call of LLMManager._make_request, for every configuration of the    *)
(* retry budget and of the rate-limit delay                                 *)

InitRequest ==
    /\ RunIdle
    /\ req_pc = "idle"
    /\ max_retries \in 0..MaxRetries
    /\ rate_limit_delay \in RateLimitDelays
    /\ attempt = 0
    /\ responses = <<>>
    /\ sleeps = <<>>
    /\ req_exc = NoExc
    /\ EmbeddingIdle
    /\ ReportIdle
    /\ ServicesIdle

\* llm_manager.py:74-91: the URL and the headers are built, the loop starts
StartRequest ==
    /\ req_pc = "idle"
    /\ req_pc' = "loop"
    /\ attempt' = 0
    /\ UNCHANGED <<max_retries, rate_limit_delay, responses, sleeps, req_exc>>
    /\ UNCHANGED nonRequestVars

\* one iteration of the loop of llm_manager.py:91-146: the request is sent,
\* answered, and the handler of the answer runs, its sleep included
Attempt ==
    /\ req_pc = "loop"
    /\ LoopContinues(attempt, max_retries)
    /\ \E resp \in Responses :
         LET h == HandleResponse(resp, attempt, max_retries, rate_limit_delay) IN
           /\ responses' = Append(responses, resp)
           /\ sleeps' = IF h.wait.kind = "none"
                        THEN sleeps
                        ELSE Append(sleeps,
                                    [after |-> attempt + 1,
                                     kind |-> h.wait.kind,
                                     seconds |-> h.wait.seconds])
           /\ req_pc' = h.next
           /\ req_exc' = h.exc
           /\ attempt' = IF h.next = "loop" THEN attempt + 1 ELSE attempt
    /\ UNCHANGED <<max_retries, rate_limit_delay>>
    /\ UNCHANGED nonRequestVars

\* llm_manager.py:148-150: the loop ended without a return or a raise
Exhausted ==
    /\ req_pc = "loop"
    /\ ~LoopContinues(attempt, max_retries)
    /\ req_pc' = "raised"
    /\ req_exc' = LLMManagerError("Failed to get a response", "none")
    /\ UNCHANGED <<max_retries, rate_limit_delay, attempt, responses, sleeps>>
    /\ UNCHANGED nonRequestVars

NextRequest ==
    \/ StartRequest
    \/ Attempt
    \/ Exhausted

SpecRequest == InitRequest /\ [][NextRequest]_vars

-----------------------------------------------------------------------------
(* One call of LLMManager.generate_embedding on a manager configured for   *)
(* DeepSeek or for OpenAI, with another call of the same manager running   *)
(* on the same event loop.  Tasks of one loop interleave at awaits only:   *)
(* the call is suspended in _make_request (the request or its sleep).      *)

InitEmbedding ==
    /\ RunIdle
    /\ req_pc = "idle"
    /\ max_retries \in 1..MaxRetries
    /\ rate_limit_delay = DefaultRateLimitDelay
    /\ attempt = 0
    /\ responses = <<>>
    /\ sleeps = <<>>
    /\ req_exc = NoExc
    /\ \E f \in {DeepSeekFields, OpenAIFields} :
         /\ provider = f.provider
         /\ api_key = f.api_key
         /\ base_url = f.base_url
         /\ openai_api_key \in
              IF f.provider = "openai" THEN {"openai_key"} ELSE {"", "openai_key"}
    /\ emb_pc = "idle"
    /\ temp = Fields("", "", "")
    /\ pre_call = Fields("", "", "")
    /\ emb_exc = NoExc
    /\ other_read = NoRead
    /\ ReportIdle
    /\ ServicesIdle

\* llm_manager.py:258-267 and 297-318, 344-348: up to the first await.  On
\* OpenAI the request is made as configured; on DeepSeek with an OpenAI key
\* the three fields are saved and overwritten before the request; on
\* DeepSeek without one the call raises at once
BeginEmbedding ==
    /\ emb_pc = "idle"
    /\ pre_call' = Fields(provider, api_key, base_url)
    /\ IF provider = "openai"
       THEN /\ emb_pc' = "awaiting_direct"
            /\ req_pc' = "loop"
            /\ UNCHANGED <<provider, api_key, base_url, temp, emb_exc>>
       ELSE IF openai_api_key # ""
       THEN /\ temp' = Fields(provider, api_key, base_url)
            /\ provider' = SwapToOpenAI(openai_api_key).provider
            /\ api_key' = SwapToOpenAI(openai_api_key).api_key
            /\ base_url' = SwapToOpenAI(openai_api_key).base_url
            /\ emb_pc' = "awaiting_fallback"
            /\ req_pc' = "loop"
            /\ UNCHANGED emb_exc
       ELSE /\ emb_pc' = "raised"
            /\ emb_exc' = LLMManagerError("DeepSeek has no embedding API", "none")
            /\ UNCHANGED <<provider, api_key, base_url, temp, req_pc>>
    /\ UNCHANGED <<openai_api_key, other_read, max_retries, rate_limit_delay,
                   attempt, responses, sleeps, req_exc>>
    /\ UNCHANGED outsideGateway

\* llm_manager.py:318-343: _make_request is over.  The fields are restored
\* on the way out: before the body is looked at when the request returned,
\* in the `except Exception` when it raised
FinishFallback ==
    /\ emb_pc = "awaiting_fallback"
    /\ req_pc \in {"returned", "raised"}
    /\ provider' = temp.provider
    /\ api_key' = temp.api_key
    /\ base_url' = temp.base_url
    /\ IF req_pc = "returned"
       THEN \E body \in EmbeddingBodies :
              /\ emb_pc' = ParseEmbeddings(body, TRUE).next
              /\ emb_exc' = ParseEmbeddings(body, TRUE).exc
       ELSE /\ emb_pc' = "raised"
            /\ emb_exc' = LLMManagerError("Failed to get embeddings using OpenAI fallback",
                                          "none")
    /\ UNCHANGED <<openai_api_key, temp, pre_call, other_read>>
    /\ UNCHANGED <<outsideGateway, requestVars>>

\* llm_manager.py:354-369: the request made as configured is over
FinishDirect ==
    /\ emb_pc = "awaiting_direct"
    /\ req_pc \in {"returned", "raised"}
    /\ IF req_pc = "returned"
       THEN \E body \in EmbeddingBodies :
              /\ emb_pc' = ParseEmbeddings(body, FALSE).next
              /\ emb_exc' = ParseEmbeddings(body, FALSE).exc
       ELSE /\ emb_pc' = "raised"
            /\ emb_exc' = req_exc
    /\ UNCHANGED <<provider, api_key, base_url, openai_api_key, temp, pre_call,
                   other_read>>
    /\ UNCHANGED <<outsideGateway, requestVars>>

\* the task awaiting generate_embedding is cancelled while _make_request is
\* suspended: asyncio.CancelledError is a BaseException, which neither the
\* handlers of _make_request (llm_manager.py:112-146) nor the
\* `except Exception` of the fallback (llm_manager.py:336-343) catch
CancelEmbedding ==
    /\ emb_pc \in {"awaiting_fallback", "awaiting_direct"}
    /\ req_pc = "loop"
    /\ emb_pc' = "cancelled"
    /\ req_pc' = "cancelled"
    /\ emb_exc' = [type |-> "CancelledError"]
    /\ UNCHANGED <<provider, api_key, base_url, openai_api_key, temp, pre_call,
                   other_read>>
    /\ UNCHANGED <<max_retries, rate_limit_delay, attempt, responses, sleeps,
                   req_exc>>
    /\ UNCHANGED outsideGateway

\* another task of the loop calls generate_chat_completion
\* (llm_manager.py:172-226) or generate_embedding (llm_manager.py:248-267)
\* on the same manager: it branches on self.provider and its request is
\* built from self.base_url and self.api_key (llm_manager.py:81-89)
ConcurrentCall ==
    /\ other_read = NoRead
    /\ \E kind \in {"chat_completion", "embedding"} :
         other_read' = [kind |-> kind,
                        during |-> emb_pc,
                        provider |-> provider,
                        api_key |-> api_key,
                        base_url |-> base_url]
    /\ UNCHANGED <<provider, api_key, base_url, openai_api_key, emb_pc, temp,
                   pre_call, emb_exc>>
    /\ UNCHANGED <<outsideGateway, requestVars>>

NextEmbedding ==
    \/ BeginEmbedding
    \/ Attempt
    \/ Exhausted
    \/ FinishFallback
    \/ FinishDirect
    \/ CancelEmbedding
    \/ ConcurrentCall

SpecEmbedding == InitEmbedding /\ [][NextEmbedding]_vars

-----------------------------------------------------------------------------
(* One call of generate_comprehensive_report in markdown format.  gather   *)
(* runs the eight coroutines as tasks of one loop: they finish in any      *)
(* order, and with return_exceptions=True an exception of one of them is   *)
(* its entry of the result list                                             *)

InitReport ==
    /\ RunIdle
    /\ RequestIdle
    /\ EmbeddingIdle
    /\ ReportIdle
    /\ ServicesIdle

\* report_generator.py:51-89: no papers, no report; otherwise the eight
\* coroutines are built and handed to asyncio.gather
StartReport ==
    /\ rep_pc = "idle"
    /\ \E no_papers \in BOOLEAN :
         IF no_papers
         THEN /\ rep_pc' = "returned"
              /\ report' = [error |-> "No papers to analyze"]
         ELSE /\ rep_pc' = "gathering"
              /\ report' = report
    /\ UNCHANGED task_result
    /\ UNCHANGED nonReportVars

\* one of the tasks gather waits for returns or raises
TaskCompletes ==
    /\ rep_pc = "gathering"
    /\ \E t \in 1..NumSections, kind \in TaskOutcomes :
         /\ task_result[t] = Pending
         /\ task_result' = [task_result EXCEPT ![t] = TaskResult(t, kind)]
    /\ UNCHANGED <<rep_pc, report>>
    /\ UNCHANGED nonReportVars

\* report_generator.py:87-115: gather returns when every task is over; the
\* sections are collected, the document compiled and the dict returned
CompileReport ==
    /\ rep_pc = "gathering"
    /\ \A t \in 1..NumSections : task_result[t] # Pending
    /\ report' = BuildReport(ReportSections(task_result))
    /\ rep_pc' = "returned"
    /\ UNCHANGED task_result
    /\ UNCHANGED nonReportVars

NextReport ==
    \/ StartReport
    \/ TaskCompletes
    \/ CompileReport

SpecReport == InitReport /\ [][NextReport]_vars

-----------------------------------------------------------------------------
(* One call of ArxivClient.search.  The request runs in an executor thread *)
(* while asyncio.wait_for counts the seconds                                *)

InitSearch ==
    /\ RunIdle
    /\ RequestIdle
    /\ EmbeddingIdle
    /\ ReportIdle
    /\ BillingIdle
    /\ CacheIdle
    /\ s_pc = "idle"
    /\ query \in QueriesOf(MaxTerms)
    /\ dispatched = <<>>
    /\ elapsed = 0
    /\ search_result = <<>>
    /\ search_exc = NoExc
    /\ provider_outcome = "none"

\* arxiv_client.py:154-191: the query is translated, the search object is
\* built with it and handed to the executor
Dispatch ==
    /\ s_pc = "idle"
    /\ dispatched' = TranslateChineseQuery(query)
    /\ s_pc' = "waiting"
    /\ elapsed' = 0
    /\ UNCHANGED <<query, search_result, search_exc, provider_outcome>>
    /\ UNCHANGED nonSearchVars

\* a second passes without an answer
Tick ==
    /\ s_pc = "waiting"
    /\ ~TimedOut(elapsed)
    /\ elapsed <= SearchTimeout
    /\ elapsed' = elapsed + 1
    /\ UNCHANGED <<s_pc, query, dispatched, search_result, search_exc,
                   provider_outcome>>
    /\ UNCHANGED nonSearchVars

\* arxiv_client.py:180-201, 206-208: the executor finishes in time
ProviderAnswers ==
    /\ s_pc = "waiting"
    /\ ~TimedOut(elapsed)
    /\ \E outcome \in ProviderOutcomes, answer \in ProviderAnswersSet :
         /\ provider_outcome' = outcome
         /\ s_pc' = FinishSearch(outcome, answer).next
         /\ search_result' = FinishSearch(outcome, answer).value
         /\ search_exc' = FinishSearch(outcome, answer).exc
    /\ UNCHANGED <<query, dispatched, elapsed>>
    /\ UNCHANGED nonSearchVars

\* arxiv_client.py:203-205: wait_for raises asyncio.TimeoutError, which the
\* handler turns into a plain Exception
WaitExpires ==
    /\ s_pc = "waiting"
    /\ TimedOut(elapsed)
    /\ s_pc' = "raised"
    /\ search_exc' = [type |-> "Exception",
                      message |-> "ArXiv search timed out after 45 seconds"]
    /\ provider_outcome' = "no_answer"
    /\ UNCHANGED <<query, dispatched, elapsed, search_result>>
    /\ UNCHANGED nonSearchVars

NextSearch ==
    \/ Dispatch
    \/ Tick
    \/ ProviderAnswers
    \/ WaitExpires

SpecSearch == InitSearch /\ [][NextSearch]_vars

-----------------------------------------------------------------------------
(* Concurrent requests of /api/search of one user.  The handler is a       *)
(* coroutine: it runs without interruption up to the await of the pipeline *)
(* and again from the answer of the pipeline to its return                 *)

InitBilling ==
    /\ RunIdle
    /\ RequestIdle
    /\ EmbeddingIdle
    /\ ReportIdle
    /\ SearchIdle
    /\ CacheIdle
    /\ db_available \in BOOLEAN
    /\ user_exists \in BOOLEAN
    /\ balance \in StartBalances
    /\ total_amount_spent = Tenths(0)
    /\ total_papers_searched = 0
    /\ usage_records = <<>>
    /\ recharge_records = <<>>
    /\ req = [r \in 1..MaxRequests |-> NoRequest]
    /\ now = 1700000000
    /\ orders = {}

\* api_server.py:764-842: the balance is tested and, unless it is too low,
\* the pipeline is called and awaited; the 402 of line 789 is caught by the
\* handler of lines 924-926 and answered as a 500
BeginSearch(r) ==
    /\ req[r].pc = "idle"
    /\ \E papers_count \in PaperCounts :
         LET c == CheckBalance(db_available, user_exists, balance, papers_count)
         IN req' = [req EXCEPT ![r] =
                      [pc |-> IF c.check = "insufficient"
                              THEN "failed" ELSE "searching",
                       search_cost |-> c.search_cost,
                       check |-> c.check,
                       invoked |-> c.check # "insufficient",
                       deduction |-> "none",
                       status |-> IF c.check = "insufficient" THEN 500 ELSE 0]]
    /\ UNCHANGED <<db_available, user_exists, balance, total_amount_spent,
                   total_papers_searched, usage_records, recharge_records,
                   now, orders>>
    /\ UNCHANGED nonBillingVars

\* api_server.py:843-926: the pipeline has answered; a result is converted,
\* its cost is deducted and it is returned, whether the deduction succeeded
\* or not
CompleteSearch(r) ==
    /\ req[r].pc = "searching"
    /\ \E outcome \in PipelineOutcomes, found \in FoundCounts :
         IF outcome = "raised"
         THEN /\ req' = [req EXCEPT ![r].pc = "failed", ![r].status = 500]
              /\ UNCHANGED <<balance, total_amount_spent,
                             total_papers_searched, usage_records>>
         ELSE IF db_available /\ Positive(req[r].search_cost) /\ user_exists
         THEN IF CanDeduct(user_exists, balance, req[r].search_cost)
              THEN /\ balance' = Minus(balance, req[r].search_cost)
                   /\ total_amount_spent' =
                          Plus(total_amount_spent, req[r].search_cost)
                   /\ total_papers_searched' = total_papers_searched + found
                   /\ usage_records' =
                          Append(usage_records,
                                 [request |-> r, papers_count |-> found,
                                  amount_charged |-> req[r].search_cost])
                   /\ req' = [req EXCEPT ![r].pc = "answered",
                                         ![r].status = 200,
                                         ![r].deduction = "ok"]
              ELSE /\ req' = [req EXCEPT ![r].pc = "answered",
                                         ![r].status = 200,
                                         ![r].deduction = "failed"]
                   /\ UNCHANGED <<balance, total_amount_spent,
                                  total_papers_searched, usage_records>>
         ELSE /\ req' = [req EXCEPT ![r].pc = "answered", ![r].status = 200]
              /\ UNCHANGED <<balance, total_amount_spent,
                             total_papers_searched, usage_records>>
    /\ UNCHANGED <<db_available, user_exists, recharge_records, now, orders>>
    /\ UNCHANGED nonBillingVars

NextBilling ==
    \/ \E r \in 1..MaxRequests : BeginSearch(r)
    \/ \E r \in 1..MaxRequests : CompleteSearch(r)

SpecBilling == InitBilling /\ [][NextBilling]_vars

-----------------------------------------------------------------------------
(* The two endpoints of a recharge, api_server.py:1077-1145 *)

InitRecharge ==
    /\ RunIdle
    /\ RequestIdle
    /\ EmbeddingIdle
    /\ ReportIdle
    /\ SearchIdle
    /\ CacheIdle
    /\ db_available = TRUE
    /\ user_exists = TRUE
    /\ balance \in StartBalances
    /\ total_amount_spent = Tenths(0)
    /\ total_papers_searched = 0
    /\ usage_records = <<>>
    /\ recharge_records = <<>>
    /\ req = [r \in 1..MaxRequests |-> NoRequest]
    /\ now = 1700000000
    /\ orders = {}

\* a second passes
ClockTick ==
    /\ now + 1 \in Timestamps
    /\ now' = now + 1
    /\ UNCHANGED <<db_available, user_exists, balance, total_amount_spent,
                   total_papers_searched, usage_records, recharge_records,
                   req, orders>>
    /\ UNCHANGED nonBillingVars

\* create_recharge_order, api_server.py:1077-1113: for a valid amount the
\* order id is made of the user and the second; nothing is stored
CreateRechargeOrder ==
    /\ db_available
    /\ user_exists
    /\ \E amount \in RequestedAmounts :
         /\ amount > 0
         /\ amount \in ValidAmounts
         /\ orders' = orders \cup
                {[order_id |-> MakeOrderId(RealUser.id, now),
                  amount |-> amount]}
    /\ UNCHANGED <<db_available, user_exists, balance, total_amount_spent,
                   total_papers_searched, usage_records, recharge_records,
                   req, now>>
    /\ UNCHANGED nonBillingVars

\* confirm_payment, api_server.py:1116-1145, with add_balance,
\* user_db.py:316-348: the amount is the third part of the order id
ConfirmPayment ==
    /\ db_available
    /\ Len(recharge_records) < MaxConfirms
    /\ \E o \in orders :
         LET parsed == ParseOrderId(o.order_id) IN
           /\ parsed.valid
           /\ user_exists /\ RealUser.id = parsed.user_id
           /\ parsed.amount > 0
           /\ balance' = Plus(balance, Yuan(parsed.amount))
           /\ recharge_records' =
                  Append(recharge_records,
                         [transaction_id |-> o.order_id,
                          amount |-> parsed.amount,
                          payment_method |-> "alipay",
                          status |-> "success"])
    /\ UNCHANGED <<db_available, user_exists, total_amount_spent,
                   total_papers_searched, usage_records, req, now, orders>>
    /\ UNCHANGED nonBillingVars

NextRecharge ==
    \/ ClockTick
    \/ CreateRechargeOrder
    \/ ConfirmPayment

SpecRecharge == InitRecharge /\ [][NextRecharge]_vars

-----------------------------------------------------------------------------
(* Threads calling the CacheManager for one key *)

InitCache ==
    /\ RunIdle
    /\ RequestIdle
    /\ EmbeddingIdle
    /\ ReportIdle
    /\ SearchIdle
    /\ BillingIdle
    /\ \/ /\ cache_file = Absent
          /\ inodes = 0
          /\ set_values = {}
       \/ /\ \E stale \in BOOLEAN : cache_file = File("v0", stale, 1)
          /\ inodes = 1
          /\ set_values = {"v0"}
    /\ th = [t \in 1..MaxThreads |-> IdleThread]

\* a thread calls get, set, delete or cleanup_expired
CacheCall(t) ==
    /\ th[t].pc = "idle"
    /\ \E op \in CacheOps, v \in CacheValues :
         /\ op # "set" => v = "v1"
         /\ th' = [th EXCEPT ![t].op = op,
                             ![t].pc = FirstStep(op),
                             ![t].value = IF op = "set" THEN v ELSE "none"]
         /\ set_values' = IF op = "set" THEN set_values \cup {v}
                          ELSE set_values
    /\ UNCHANGED <<cache_file, inodes>>
    /\ UNCHANGED nonCacheVars

\* Path.exists() or the glob of the directory
CacheExists(t) ==
    /\ th[t].pc \in {"g_exists", "g_exists2", "d_exists", "c_glob", "c_exists"}
    /\ th' = [th EXCEPT
                ![t].pc = AfterExists(th[t].pc, cache_file.exists).pc,
                ![t].ret = AfterExists(th[t].pc, cache_file.exists).ret]
    /\ UNCHANGED <<cache_file, inodes, set_values>>
    /\ UNCHANGED nonCacheVars

\* Path.stat() of _is_expired
CacheStat(t) ==
    /\ th[t].pc \in {"g_stat", "c_stat"}
    /\ th' = [th EXCEPT ![t].pc = AfterStat(th[t].pc, cache_file).pc,
                        ![t].ret = AfterStat(th[t].pc, cache_file).ret]
    /\ UNCHANGED <<cache_file, inodes, set_values>>
    /\ UNCHANGED nonCacheVars

\* Path.unlink()
CacheUnlink(t) ==
    /\ th[t].pc \in {"g_unlink", "d_unlink", "c_unlink"}
    /\ th' = [th EXCEPT
                ![t].pc = AfterUnlink(th[t].pc, cache_file.exists).pc,
                ![t].ret = AfterUnlink(th[t].pc, cache_file.exists).ret]
    /\ cache_file' = Absent
    /\ UNCHANGED <<inodes, set_values>>
    /\ UNCHANGED nonCacheVars

\* open(cache_path, 'rb') and pickle.load of get
CacheLoad(t) ==
    /\ th[t].pc = "g_open"
    /\ th' = [th EXCEPT ![t].pc = AfterLoad(cache_file).pc,
                        ![t].ret = AfterLoad(cache_file).ret]
    /\ UNCHANGED <<cache_file, inodes, set_values>>
    /\ UNCHANGED nonCacheVars

\* open(cache_path, 'wb') of set (cache_manager.py:121): the file is
\* created or truncated
CacheOpenForWrite(t) ==
    /\ th[t].pc = "s_open"
    /\ IF cache_file.exists
       THEN /\ cache_file' = File(Partial, FALSE, cache_file.inode)
            /\ inodes' = inodes
       ELSE /\ cache_file' = File(Partial, FALSE, inodes + 1)
            /\ inodes' = inodes + 1
    /\ th' = [th EXCEPT ![t].pc = "s_dump", ![t].handle = cache_file'.inode]
    /\ UNCHANGED set_values
    /\ UNCHANGED nonCacheVars

\* pickle.dump and the close of the file (cache_manager.py:122-125): the
\* bytes go to the file that was opened, which the path may no longer name
CacheDump(t) ==
    /\ th[t].pc = "s_dump"
    /\ cache_file' =
          IF cache_file.exists /\ cache_file.inode = th[t].handle
          THEN File(th[t].value, FALSE, cache_file.inode)
          ELSE cache_file
    /\ th' = [th EXCEPT ![t].pc = "done", ![t].ret = Returned("True")]
    /\ UNCHANGED <<inodes, set_values>>
    /\ UNCHANGED nonCacheVars

\* the age of the file passes the ttl
CacheExpire ==
    /\ cache_file.exists
    /\ ~cache_file.stale
    /\ cache_file' = [cache_file EXCEPT !.stale = TRUE]
    /\ UNCHANGED <<inodes, th, set_values>>
    /\ UNCHANGED nonCacheVars

NextCache ==
    \/ \E t \in 1..MaxThreads : CacheCall(t)
    \/ \E t \in 1..MaxThreads : CacheExists(t)
    \/ \E t \in 1..MaxThreads : CacheStat(t)
    \/ \E t \in 1..MaxThreads : CacheUnlink(t)
    \/ \E t \in 1..MaxThreads : CacheLoad(t)
    \/ \E t \in 1..MaxThreads : CacheOpenForWrite(t)
    \/ \E t \in 1..MaxThreads : CacheDump(t)
    \/ CacheExpire

SpecCache == InitCache /\ [][NextCache]_vars

-----------------------------------------------------------------------------
(* Properties of the deduplication passes (checked under SpecDedup)        *)

\* position a of fetched is among the kept positions idx
Survives(a, idx) == \E k \in 1..Len(idx) : idx[k] = a

Positions == 1..Len(fetched)

\* the ID pass has run
StrongDone ==
    /\ pc \notin {"new", "ready", "config_failed", "retrieve", "dedup_id"}
    /\ cancelled_at \notin {"retrieve"}

\* both passes have run
SoftDone == StrongDone /\ pc # "dedup_soft"

HasDoi(a) == fetched[a].doi # <<>>

SameDoi(a, b) ==
    /\ HasDoi(a)
    /\ HasDoi(b)
    /\ Lower(fetched[a].doi) = Lower(fetched[b].doi)

\* C1: among the items that share a DOI, compared case-insensitively, none
\* but the first-seen one survives the ID pass, and the list the pass leaves
\* is the survivors in retrieval order.
Thm_C1_DoiFirstSeenWins ==
    StrongDone =>
        /\ \A a, b \in Positions : (a < b /\ SameDoi(a, b)) => ~Survives(b, kept_id)
        /\ pc = "dedup_soft" => retrieved_items = ItemsAt(fetched, kept_id)

\* two items whose DOIs differ in case only: the first survived, the second
\* was dropped
Wit_C1_CaseDifferingDoi ==
    /\ pc = "dedup_soft"
    /\ \E a, b \in Positions :
         /\ a < b
         /\ SameDoi(a, b)
         /\ fetched[a].doi # fetched[b].doi
         /\ Survives(a, kept_id)
         /\ ~Survives(b, kept_id)

\* the normalisation the specification describes: lower-cased, every
\* character that is neither alphanumeric nor a space removed (and trimmed)
DescribedNorm(s) == Strip(SelectSeq(Lower(s), KeepChar))

DescribedSoftEqual(x, y) ==
    /\ DescribedNorm(x.title) = DescribedNorm(y.title)
    /\ x.authors # <<>>
    /\ y.authors # <<>>
    /\ DescribedNorm(x.authors[1]) = DescribedNorm(y.authors[1])

\* C2 as stated: two survivors of the ID pass whose title and first author
\* are equal after lower-casing and removing every character that is neither
\* alphanumeric nor a space never both survive the soft pass.
Orig_C2_PunctuationInsensitiveAuthor ==
    SoftDone =>
        \A a, b \in Positions :
            (/\ a < b
             /\ Survives(a, kept_id)
             /\ Survives(b, kept_id)
             /\ DescribedSoftEqual(fetched[a], fetched[b]))
            => ~Survives(b, kept_soft)

\* C2 amended: two survivors of the ID pass never both survive the soft pass
\* when their titles are equal after lower-casing, removal of the characters
\* that are neither alphanumeric nor spaces, and trimming, and their first
\* authors are equal after lower-casing and trimming only (punctuation is
\* kept; an item without authors counts as "unknown_author"); the later one
\* is dropped.
Thm_C2_SoftKeyFirstSeenWins ==
    SoftDone =>
        /\ \A a, b \in Positions :
              (/\ a < b
               /\ Survives(a, kept_id)
               /\ Survives(b, kept_id)
               /\ NormTitle(fetched[a].title) = NormTitle(fetched[b].title)
               /\ FirstAuthorNorm(fetched[a].authors) = FirstAuthorNorm(fetched[b].authors))
              => ~Survives(b, kept_soft)
        /\ pc = "truncate" => retrieved_items = ItemsAt(fetched, kept_soft)

\* two survivors of the ID pass written differently (case, padding) with the
\* same key: the first survived the soft pass, the second did not
Wit_C2_SoftDuplicateDropped ==
    /\ pc = "truncate"
    /\ \E a, b \in Positions :
         /\ a < b
         /\ Survives(a, kept_id)
         /\ Survives(b, kept_id)
         /\ TitleAuthorKey(fetched[a]) = TitleAuthorKey(fetched[b])
         /\ fetched[a].title # fetched[b].title
         /\ fetched[a].authors # fetched[b].authors
         /\ Survives(a, kept_soft)
         /\ ~Survives(b, kept_soft)

ArxivPrefix == <<"a","r","x","i","v",":">>

\* the external-id key the specification describes: lower-cased, with a
\* leading source prefix removed
DescribedExternalKey(s) ==
    LET l == Lower(s) IN
    IF Len(l) >= Len(ArxivPrefix) /\ SubSeq(l, 1, Len(ArxivPrefix)) = ArxivPrefix
    THEN SubSeq(l, Len(ArxivPrefix) + 1, Len(l))
    ELSE l

DoiLessWithArxivId(a) == fetched[a].doi = <<>> /\ fetched[a].arxiv_id # <<>>

LoweredKey(a) ==
    IF HasDoi(a) THEN Lower(fetched[a].doi) ELSE Lower(fetched[a].arxiv_id)

Thm_C4_DedupIdempotent ==
    pc = "truncate" =>
        /\ DedupItems(retrieved_items) = retrieved_items
        /\ DedupItems(DedupItems(fetched)) = DedupItems(fetched)

\* both passes dropped an item of the answer
Wit_C4_BothPassesDropped ==
    /\ pc = "truncate"
    /\ Len(kept_id) < Len(fetched)
    /\ Len(kept_soft) < Len(kept_id)
    /\ retrieved_items # <<>>

NoIdentifier(a) == fetched[a].doi = <<>> /\ fetched[a].arxiv_id = <<>>

UniqueSoftKey(a) ==
    \A b \in Positions :
        b # a => TitleAuthorKey(fetched[b]) # TitleAuthorKey(fetched[a])

\* C5: an item with neither DOI nor arXiv id whose normalised (title, first
\* author) pair no other item of the answer has is in the list both passes
\* leave, unmodified, whatever the other items are.
Thm_C5_UnidentifiedUniqueSurvives ==
    pc = "truncate" =>
        \A a \in Positions :
            (NoIdentifier(a) /\ UniqueSoftKey(a)) =>
                \E k \in 1..Len(kept_soft) :
                    /\ kept_soft[k] = a
                    /\ retrieved_items[k] = fetched[a]

\* such an item came last in an answer of which the passes dropped another
Wit_C5_SurvivesAmongDuplicates ==
    /\ pc = "truncate"
    /\ Len(fetched) = 3
    /\ NoIdentifier(3)
    /\ UniqueSoftKey(3)
    /\ Len(retrieved_items) < Len(fetched)
    /\ Survives(3, kept_soft)

-----------------------------------------------------------------------------
(* Properties of the run (checked under Spec)                              *)

Min(a, b) == IF a < b THEN a ELSE b

Retained == 1..Len(retrieved_items)

\* the truncation has run
TruncateDone == pc \in {"enrich", "analyze", "done"}

\* C6: for every max_papers >= 0 the list kept after deduplication is the
\* first min(max_papers, n) items of the n deduplicated items, in retrieval
\* order, so enrichment and analysis never handle more than max_papers items.
Thm_C6_TruncateToMaxPapers ==
    TruncateDone =>
        /\ Len(retrieved_items) = Min(max_papers, Len(kept_soft))
        /\ \A k \in Retained :
              [retrieved_items[k] EXCEPT !.full_text = ""] = fetched[kept_soft[k]]
        /\ Len(enrich_outcome) <= max_papers
        /\ Len(processed_papers) <= max_papers

\* more items survived deduplication than max_papers allows, and exactly
\* max_papers of them were analysed
Wit_C6_Truncated ==
    /\ pc = "done"
    /\ max_papers > 0
    /\ Len(kept_soft) > max_papers
    /\ Len(processed_papers) = max_papers

ExtractionFailed(k) == k <= Len(enrich_outcome) /\ enrich_outcome[k] = "failed"

Thm_C8_AnalysisNeverAbortsItem ==
    /\ pc = "analyze" => Len(processed_papers) = i - 1
    /\ pc = "done" =>
          /\ Len(processed_papers) = Len(retrieved_items)
          /\ \A k \in Retained :
                /\ processed_papers[k].item_id_internal = retrieved_items[k].id
                /\ analysis_outcome[k].kw = "raise" =>
                      processed_papers[k].keywords = <<>>
                /\ analysis_outcome[k].llm \in LlmFailures =>
                      processed_papers[k].ai_enhanced_summary
                        = "AI summary generation failed."

\* both calls failed for the first item and the second item was summarised
Wit_C8_FailedItemThenGoodItem ==
    /\ pc = "done"
    /\ Len(analysis_outcome) = 2
    /\ analysis_outcome[1].kw = "raise"
    /\ analysis_outcome[1].llm \in LlmFailures
    /\ analysis_outcome[2].llm = "content"
    /\ processed_papers[2].ai_enhanced_summary = "summary"

AuthRejected(k) == k <= Len(analysis_outcome) /\ analysis_outcome[k].llm = "auth_rejected"

\* C9 as stated: an authentication rejection by the LLM provider during
\* analysis ends the run with a hard failure for the caller.
Orig_C9_AuthRejectionIsHardFailure ==
    (pc = "done" /\ \E k \in Retained : AuthRejected(k)) => raised # "none"

\* C9 amended: the only failures that reach the caller as hard failures are
\* configuration-time failures, raised when the agent is constructed; an
\* authentication rejection during analysis is caught at the item like every
\* other per-item failure: the item gets the placeholder summary and the run
\* returns its result.
Thm_C9_OnlyConfigurationFailurePropagates ==
    /\ raised # "none" <=> pc = "config_failed"
    /\ \A k \in 1..Len(processed_papers) :
          AuthRejected(k) =>
              processed_papers[k].ai_enhanced_summary = "AI summary generation failed."
    /\ pc = "done" => results.num_papers_processed = Len(retrieved_items)

\* the provider rejected the credentials for an item and the run returned
Wit_C9_AuthRejectedRunReturned ==
    /\ pc = "done"
    /\ \E k \in Retained : AuthRejected(k)
    /\ raised = "none"
    /\ results.num_papers_processed > 0

\* no item survived retrieval and deduplication, and every configured source
\* failed
TerminalFailureCondition ==
    /\ kept_soft = <<>>
    /\ source_outcome # "answered"

RunStarted == pc \notin {"new", "ready", "config_failed"}

\* a step of the enrichment and analysis loops
LoopStep ==
    \/ SkipEnrichment
    \/ EnrichItem
    \/ FinishEnrichment
    \/ AnalyzeItem
    \/ ReturnResults

\* C10: whenever the terminal-failure condition does not hold, the run never
\* raises, its enrichment and analysis loops can always take their next step
\* whatever the calls did, and the result it returns carries the action plan
\* and the processed count.
Thm_C10_RunAlwaysReturnsResult ==
    (RunStarted /\ (SoftDone => ~TerminalFailureCondition)) =>
        /\ raised = "none"
        /\ pc \in {"enrich", "analyze"} => ENABLED LoopStep
        /\ pc = "done" =>
              /\ results.action_plan = action_plan
              /\ results.action_plan # <<>>
              /\ results.num_papers_processed = Len(processed_papers)
              /\ results.processed_papers = processed_papers

\* the source answered with no item: the run returned a result with the plan
\* and a count of 0
Wit_C10_EmptyAnswerReturnsResult ==
    /\ pc = "done"
    /\ source_outcome = "answered"
    /\ fetched = <<>>
    /\ results.num_papers_processed = 0
    /\ results.action_plan # <<>>

-----------------------------------------------------------------------------
(* Properties of the run under the request handler (checked under Spec)    *)

Announced(stage) == \E k \in 1..Len(stage_log) : stage_log[k] = stage

InPlan(step, plan) == \E k \in 1..Len(plan) : plan[k] = step

\* C11: when the wall-clock budget of a run expires, the in-flight operation
\* is cancelled, the items already completed at that moment are kept in the
\* returned result, and the caller receives a partial result with a timeout
\* notice in the action plan rather than an exception.
Orig_C11_TimeoutKeepsCompletedItems ==
    pc = "timed_out" =>
        /\ raised = "none"
        /\ InPlan("timeout", results.action_plan)
        /\ results.processed_papers = processed_papers

AllStages ==
    <<"Retrieving", "Deduplicating", "Enriching", "Analyzing", "Compiling", "Done">>

StagesOf(full_text) ==
    <<"Retrieving", "Deduplicating">>
    \o (IF full_text THEN <<"Enriching">> ELSE <<>>)
    \o <<"Analyzing", "Compiling", "Done">>

IsPrefix(s, t) == Len(s) <= Len(t) /\ s = SubSeq(t, 1, Len(s))

StepAfterRetrieval ==
    \/ DedupById
    \/ DedupSoft
    \/ Truncate
    \/ LoopStep

\* C13: a failure of the arXiv retriever is not fatal to the run: the source
\* contributes 0 items, nothing is raised, the run can always take its next
\* step, and deduplication, enrichment (when requested) and analysis are
\* still entered over the items the run holds before the result is returned.
Thm_C13_SourceFailureNonFatal ==
    source_outcome = "failed" =>
        /\ fetched = <<>>
        /\ raised = "none"
        /\ pc \in {"dedup_id", "dedup_soft", "truncate", "enrich", "analyze",
                   "done", "timed_out"}
        /\ pc \notin {"done", "timed_out"} => ENABLED StepAfterRetrieval
        /\ pc = "done" =>
              /\ Announced("Deduplicating")
              /\ retrieve_full_text => Announced("Enriching")
              /\ Announced("Analyzing")
              /\ DOMAIN results = ResultKeys
              /\ results.retrieved_items = retrieved_items
              /\ results.num_papers_processed = Len(retrieved_items)

\* the search raised and the run, with full-text retrieval requested, went
\* through every stage and returned its result
Wit_C13_FailedSourceRunReturned ==
    /\ pc = "done"
    /\ source_outcome = "failed"
    /\ retrieve_full_text
    /\ Announced("Enriching")
    /\ results.num_papers_processed = 0

-----------------------------------------------------------------------------
(* Properties of _make_request (checked under SpecRequest)                 *)

Sent == 1..Len(responses)

\* the sleeps made after the k-th request was answered
SleepsAfter(k) == {j \in 1..Len(sleeps) : sleeps[j].after = k}

AuthStatus == {"401", "403"}

Retryable == {"429", "500", "transport"}

AllRetryable == \A k \in Sent : responses[k] \in Retryable

Orig_C16_BackoffDoubles ==
    \A j \in 1..(Len(sleeps) - 1) :
        (/\ sleeps[j].kind = "backoff"
         /\ sleeps[j + 1].kind = "backoff"
         /\ sleeps[j + 1].after = sleeps[j].after + 1) =>
            sleeps[j + 1].seconds = 2 * sleeps[j].seconds

\* C17: on a 429 answer to the k-th attempt exactly one wait is made, of the
\* configured rate-limit delay times k, and none of the generic backoff.
Thm_C17_RateLimitDelayScaled ==
    \A k \in Sent :
        responses[k] = "429" =>
            /\ Cardinality(SleepsAfter(k)) = 1
            /\ \A j \in SleepsAfter(k) :
                  /\ sleeps[j].kind = "rate_limit"
                  /\ sleeps[j].seconds = rate_limit_delay * k

\* two 429 answers in a row with a delay of 5 s: waits of 5 s and 10 s
Wit_C17_SecondRateLimitWait ==
    /\ rate_limit_delay = 5
    /\ Len(responses) >= 2
    /\ responses[1] = "429"
    /\ responses[2] = "429"
    /\ sleeps[1].seconds = 5
    /\ sleeps[2].seconds = 10

-----------------------------------------------------------------------------
(* Properties of the embedding fallback (checked under SpecEmbedding)      *)

FallbackTaken == temp # Fields("", "", "")

CurrentFields == Fields(provider, api_key, base_url)

\* C18: after an embedding call that took the fallback ends by any exit path
\* (success, request failure after retries, malformed response, cancellation
\* of the awaiting task), provider, API key and base URL equal the values
\* they had before the call.
Orig_C18_FieldsRestoredOnEveryExit ==
    (FallbackTaken /\ emb_pc \in {"returned", "raised", "cancelled"}) =>
        CurrentFields = pre_call

\* C19: no concurrent chat-completion or embedding call reads the swapped
\* provider, API key or base URL while the fallback swap is in progress.
Orig_C19_SwapNeverObserved ==
    (other_read # NoRead /\ other_read.during = "awaiting_fallback") =>
        Fields(other_read.provider, other_read.api_key, other_read.base_url)
          = pre_call

-----------------------------------------------------------------------------
(* Properties of the report (checked under SpecReport)                     *)

\* the entries of the compiled document written for the t-th task
EntriesOf(t) ==
    {k \in 1..Len(report.content) : report.content[k].heading = SectionNames[t]}

ReportReturned == rep_pc = "returned" /\ "content" \in DOMAIN report

\* C20: the eight section tasks finish in any order and each failure is
\* captured on its own: whatever subset of the tasks raises, the call can
\* always go on and returns the report; a section whose task raised is None
\* in the sections and absent from the compiled document; a section whose
\* task returned keeps the result of that very task, and is written to the
\* document with it when the result has content.
Thm_C20_SectionFailuresIndependent ==
    /\ rep_pc = "gathering" => ENABLED (TaskCompletes \/ CompileReport)
    /\ ReportReturned =>
          /\ DOMAIN report = {"content", "metadata", "sections"}
          /\ \A t \in 1..NumSections :
                IF task_result[t].kind = "exception"
                THEN /\ report.sections[t] = None
                     /\ EntriesOf(t) = {}
                ELSE /\ report.sections[t] = task_result[t]
                     /\ report.sections[t].of = SectionNames[t]
                     /\ task_result[t].kind = "content" =>
                           /\ Cardinality(EntriesOf(t)) = 1
                           /\ \A k \in EntriesOf(t) :
                                 report.content[k].body = task_result[t]

\* the first and the last task raised, the others returned content: the
\* report has the six other sections
Wit_C20_TwoSectionsFailed ==
    /\ ReportReturned
    /\ task_result[1].kind = "exception"
    /\ task_result[8].kind = "exception"
    /\ \A t \in 2..7 : task_result[t].kind = "content"
    /\ Len(report.content) = 6

-----------------------------------------------------------------------------
(* Claims about ArxivClient.search *)

TimeoutMessage == "ArXiv search timed out after 45 seconds"

\* the wait of the call ended without an answer of the provider
NoAnswer == provider_outcome = "no_answer"

Dispatched == s_pc # "idle"

\* C22 as stated: the query a search dispatches is never empty or near-empty
Orig_C22_NeverEmptyRequest ==
    Dispatched => Len(Strip(dispatched)) >= 3

\* what the translation of a Chinese query is before the test of its length
Collapsed(q) == JoinSplit(RemoveStopwords(ReplaceKeywords(q, 1), 1))

\* C22, amended: a query with a Chinese character is never dispatched with
\* fewer than 3 characters, and when its translation has fewer than 3
\* characters the default "machine learning" is dispatched; a query without
\* Chinese characters is dispatched as it is, empty or blank included
Thm_C22_DefaultOnCollapsedTranslation ==
    Dispatched =>
        /\ HasChinese(query) => Len(Strip(dispatched)) >= 3
        /\ (HasChinese(query) /\ Len(Strip(Collapsed(query))) < 3) =>
               dispatched = DefaultQuery
        /\ ~HasChinese(query) => dispatched = query

Wit_C22_StopwordsOnlyQuery ==
    /\ Dispatched
    /\ query = <<"U7684", "U7814", "U7A76">>
    /\ dispatched = DefaultQuery

\* C23 as stated: a query that is a key of the keyword table is dispatched
\* as the translation the table gives for that key
Orig_C23_KeyDispatchedAsTranslation ==
    Dispatched =>
        \A k \in 1..Len(ChineseToEnglish) :
            query = ChineseToEnglish[k].chinese =>
                dispatched = ChineseToEnglish[k].english

\* C26 as stated: a search whose API call raised has raised
Orig_C26_ApiErrorRaises ==
    provider_outcome = "api_error" => s_pc = "raised"

-----------------------------------------------------------------------------
(* Claims about the waits of _make_request *)

\* C27 as stated: every wait of a request is followed by another attempt, so
\* a call that has ended made no wait after its last request
Orig_C27_NoWaitAfterFinalAttempt ==
    req_pc \in {"raised", "returned"} =>
        \A j \in 1..Len(sleeps) : sleeps[j].after < Len(responses)

-----------------------------------------------------------------------------
(* Claims about the query arguments of conduct_literature_review *)

\* the call went on to retrieval
Proceeded == pc \notin {"new", "config_failed", "ready", "rejected"}

\* C28 as stated: the call answers "Missing query parameters" exactly when
\* neither research_topic nor raw_query is supplied, and goes on to
\* retrieval whenever at least one of them is
Orig_C28_MissingOnlyWhenNeitherSupplied ==
    /\ pc = "rejected" =>
         (results.error = "Missing query parameters"
            <=> (~Supplied(research_topic) /\ ~Supplied(raw_query)))
    /\ (pc \notin {"new", "config_failed", "ready"}
          /\ (Supplied(research_topic) \/ Supplied(raw_query))) => Proceeded

-----------------------------------------------------------------------------
(* Claims about the billing of searches and about recharges *)

Requests == 1..MaxRequests

\* the usage records written for request r
ChargesOf(r) == {k \in 1..Len(usage_records) : usage_records[k].request = r}

Invokes(r) == ~req[r].invoked /\ req'[r].invoked

Orig_C29_PassedCheckIsCharged ==
    \A r \in Requests :
        (req[r].check = "passed" /\ req[r].pc = "answered") =>
            /\ req[r].deduction = "ok"
            /\ Cardinality(ChargesOf(r)) = 1

\* C30 as stated: every credit is the credit of an order the user created,
\* by the amount of that order, and no order is credited twice
Orig_C30_CreditedOncePerOrderByItsAmount ==
    /\ \A k \in 1..Len(recharge_records) :
         \E o \in orders :
            /\ o.order_id = recharge_records[k].transaction_id
            /\ o.amount = recharge_records[k].amount
    /\ \A j, k \in 1..Len(recharge_records) :
         j # k => recharge_records[j].transaction_id
                    # recharge_records[k].transaction_id


-----------------------------------------------------------------------------
(* Claims about the CacheManager *)

\* C25 as stated: whatever the interleaving of get, set, delete and
\* cleanup_expired on one key, no call raises, and get returns None or a
\* complete value that was passed to set
Orig_C25_CacheOperationsThreadSafe ==
    \A t \in 1..MaxThreads :
        /\ th[t].ret.kind # "raised"
        /\ (th[t].op = "get" /\ th[t].ret.kind = "returned") =>
               th[t].ret.value \in {"None"} \cup set_values


=============================================================================
